---- MODULE Spec2Model ----
(***************************************************************************)
(* A model of the ocore-wallet-client: the copayer (wallet identity) state *)
(* kept by the client API, the calls that change it, and the Verifier that *)
(* decides whether an answer of the wallet service is to be trusted.       *)
(*                                                                         *)
(* Conventions.  JavaScript's undefined / null / '' are all written "".    *)
(* Numbers that may be unset (m, n) are 0 when unset.  Cryptographic       *)
(* primitives are symbolic: a ciphertext, signature or hash is the string  *)
(* that names its inputs, so two of them are equal exactly when their      *)
(* inputs are (no collisions, no forgery without the key).                 *)
(*                                                                         *)
(* The specifications share the variables.  Spec follows a copayer from    *)
(* the device key on: wallets created, joined and opened, addresses asked  *)
(* for.  SpecProposal starts with createTxProposal called on a complete    *)
(* wallet (or the Verifier about to be called) and lets the service        *)
(* answer.  SpecDevice follows the keys of a device: encrypted, decrypted, *)
(* read, exported, imported, used to sign.  SpecKeyDerivation adds         *)
(* validateKeyDerivation to the calls it can refuse.  SpecAccounts adds    *)
(* copayers to a device and asks for the next account.  SpecDerive and     *)
(* SpecExpand apply Utils.deriveAddress and Device._expand to the inputs   *)
(* they can be given.  SpecRequest follows a request through the login     *)
(* session and the timer that polls for notifications, SpecPoll the polls  *)
(* that are in flight together.  SpecSelfTest runs the self tests on the    *)
(* clients of one process, SpecImport imports backups.  A function that    *)
(* can raise returns "throw" (or threw = TRUE, or the message thrown); a   *)
(* callback left by an exception has the outcome "raise": the caller's     *)
(* callback is not invoked.                                                *)
(***************************************************************************)
EXTENDS Integers, Sequences, FiniteSets, TLC

VARIABLES
  device,     \* API.device: the Device object (lib/device FIELDS)
  copayer,    \* API.copayer: the active Copayer object (lib/copayer FIELDS)
  pending,    \* the API call whose request is in flight (op = "none": no call)
  last,       \* the call whose callback ran last: inputs, verdict, what the caller got
  keyDerivationOk,  \* API.keyDerivationOk: "undefined" until validateKeyDerivation has run
  session,    \* API.session: the login session sent as x-session ("": none yet)
  notificationsIntervalId,  \* API.notificationsIntervalId: the polling timer (0: null)
  timers,     \* the intervals set with setInterval and not cleared
  lastNotificationId, \* API.lastNotificationId: the newest notification received (0: none)
  deviceValidated      \* _deviceValidated of api.js: the hardcoded self test has been run in this process

vars == <<device, copayer, pending, last, keyDerivationOk, session, notificationsIntervalId, timers,
          lastNotificationId, deviceValidated>>

-----------------------------------------------------------------------------
(* Bounds of the model *)

MaxN           == 2   \* largest wallet size n the service reports / the user asks for
MaxCopayers    == 2   \* longest copayer list in a wallet status
MaxAddresses   == 2   \* longest address list answered to getMainAddresses
MaxArgsOutputs == 2   \* most outputs in a submitted payment
MaxTxpOutputs  == 3   \* most outputs in the proposal the service returns

RECURSIVE SeqsUpTo(_, _)
SeqsUpTo(S, k) ==
  IF k = 0 THEN { <<>> }
  ELSE LET shorter == SeqsUpTo(S, k - 1)
       IN  shorter \cup { Append(s, x) : s \in { t \in shorter : Len(t) = k - 1 }, x \in S }

Range(s) == { s[i] : i \in 1..Len(s) }

-----------------------------------------------------------------------------
(* Constants: ADDRESS_TYPES *)

NORMAL == "normal"
SHARED == "shared"
SCRIPT == "script"
ADDRESS_TYPES == { NORMAL, SHARED, SCRIPT }

ECANNOTDECRYPT == "<ECANNOTDECRYPT>"

-----------------------------------------------------------------------------
(* Utils: symbolic cryptography *)

WalletPrivKeys == { "wpk1", "wpkX" }     \* wpk1: the wallet's secret; wpkX: a key the service made up
Plaintexts     == { "hello", "dummy", "me", "bob", "W", "wpk1" }

privateKeyToAESKey(privKey) == "aes(" \o privKey \o ")"

EncryptingKeys == { privateKeyToAESKey(k) : k \in WalletPrivKeys } \cup { "personal(dev)" }

toPublicKey(privKey) == "pub(" \o privKey \o ")"

encryptMessage(message, encryptingKey) == "{" \o encryptingKey \o ":" \o message \o "}"

\* every ciphertext there is, with the key and the plaintext it was made from
Ciphertexts == { <<encryptMessage(m, k), k, m>> : k \in EncryptingKeys, m \in Plaintexts }

\* what JSON.parse + the iv/ct test of decryptMessageNoThrow recognises
isSjclJson(str) == \E t \in Ciphertexts : t[1] = str

\* Utils.decryptMessage: [threw, value]; sjcl.decrypt throws unless the text was
\* encrypted under this very key
decryptMessage(cyphertextJson, encryptingKey) ==
  IF cyphertextJson = "" THEN [threw |-> FALSE, value |-> ""]
  ELSE IF encryptingKey = "" THEN [threw |-> TRUE, value |-> ""]
  ELSE IF \E t \in Ciphertexts : t[1] = cyphertextJson /\ t[2] = encryptingKey
       THEN [threw |-> FALSE,
             value |-> (CHOOSE t \in Ciphertexts : t[1] = cyphertextJson /\ t[2] = encryptingKey)[3]]
       ELSE [threw |-> TRUE, value |-> ""]

decryptMessageNoThrow(cyphertextJson, encryptingKey) ==
  IF encryptingKey = "" THEN ECANNOTDECRYPT
  ELSE IF cyphertextJson = "" THEN ""
  ELSE IF ~isSjclJson(cyphertextJson) THEN cyphertextJson
  ELSE LET r == decryptMessage(cyphertextJson, encryptingKey)
       IN  IF r.threw THEN ECANNOTDECRYPT ELSE r.value

\* API._encryptMessage
apiEncryptMessage(message, encryptingKey) ==
  IF message = "" THEN "" ELSE encryptMessage(message, encryptingKey)

signMessage(text, privKey) == "sig(" \o privKey \o ";" \o text \o ")"

verifyMessage(text, signature, pubKey) ==
  IF signature = "" THEN FALSE
  ELSE \E k \in WalletPrivKeys : toPublicKey(k) = pubKey /\ signature = signMessage(text, k)

getCopayerHash(name, xPubKey, requestPubKey) == name \o "|" \o xPubKey \o "|" \o requestPubKey

xPubToCopayerId(xpub) == "id(" \o xpub \o ")"

-----------------------------------------------------------------------------
(* Utils.deriveAddress *)

Paths == { "m/0/0", "m/0/1" }            \* non-hardened paths: derivable from a public key
HardenedPath == "m/0'"                    \* HDPublicKey.deriveChild throws on such a path

\* HDPublicKey(item.xPubKey).deriveChild(path).publicKey, base64
leafPubKey(xPubKey, path) == xPubKey \o "/" \o path

RECURSIVE joinSet(_, _, _)
joinSet(publicKeyRing, path, i) ==
  IF i > Len(publicKeyRing) THEN ""
  ELSE "[sig," \o leafPubKey(publicKeyRing[i].xPubKey, path) \o "]" \o joinSet(publicKeyRing, path, i + 1)

requiredStr(m) == CASE m = 0 -> "0" [] m = 1 -> "1" [] m = 2 -> "2" [] m = 3 -> "3" [] OTHER -> "n"

getChash160(definition) == "chash(" \o definition \o ")"

\* [threw, address]: threw when a $.checkArgument / $.checkState precondition fails;
\* address is "" (undefined) when the switch has no case for the type
deriveAddress(walletId, addressType, publicKeyRing, path, m) ==
  IF addressType \notin ADDRESS_TYPES THEN [threw |-> TRUE, address |-> ""]
  ELSE IF path \notin Paths THEN [threw |-> TRUE, address |-> ""]
  ELSE IF addressType = NORMAL
    THEN IF Len(publicKeyRing) # 1 THEN [threw |-> TRUE, address |-> ""]
         ELSE [threw |-> FALSE,
               address |-> getChash160("[sig," \o leafPubKey(publicKeyRing[1].xPubKey, path) \o "]")]
  ELSE IF addressType = SHARED
    THEN [threw |-> FALSE,
          address |-> getChash160("[r of set," \o requiredStr(m) \o "," \o joinSet(publicKeyRing, path, 1) \o "]")]
  ELSE [threw |-> FALSE, address |-> ""]

-----------------------------------------------------------------------------
(* Copayer (the wallet identity) *)

\* Copayer.fromExtendedPublicKey + _expand: a Copayer has no requestPubKey field of
\* its own, so the self entry of the first ring carries none
fromExtendedPublicKey(deviceId, xPubKey, account) ==
  [ account             |-> account,
    copayerId           |-> xPubToCopayerId(xPubKey),
    copayerName         |-> "",
    xPubKey             |-> xPubKey,
    walletId            |-> "",
    walletName          |-> "",
    m                   |-> 0,
    n                   |-> 0,
    publicKeyRing       |-> << [xPubKey |-> xPubKey, requestPubKey |-> "", deviceId |-> deviceId,
                                account |-> account, copayerName |-> ""] >>,
    walletPrivKey       |-> "",
    sharedEncryptingKey |-> "",
    addressType         |-> "" ]

addWalletPrivateKey(c, walletPrivKey) ==
  [c EXCEPT !.walletPrivKey = walletPrivKey,
            !.sharedEncryptingKey = privateKeyToAESKey(walletPrivKey)]

addPublicKeyRing(c, publicKeyRing) == [c EXCEPT !.publicKeyRing = publicKeyRing]

addWalletInfo(c, deviceId, walletId, walletName, m, n, requestPubKey, copayerName) ==
  LET c1 == [c EXCEPT !.walletId = walletId,
                      !.walletName = walletName,
                      !.m = m,
                      !.n = n,
                      !.copayerName = IF copayerName # "" THEN copayerName ELSE c.copayerName,
                      !.addressType = IF n = 1 THEN NORMAL ELSE SHARED]
  IN  IF n = 1
      THEN addPublicKeyRing(c1, << [xPubKey |-> c.xPubKey, requestPubKey |-> requestPubKey,
                                    deviceId |-> deviceId, account |-> c.account,
                                    copayerName |-> ""] >>)
      ELSE c1

hasWalletInfo(c) == c.walletId # ""

isComplete(c) ==
  IF c.m = 0 \/ c.n = 0 THEN FALSE
  ELSE IF Len(c.publicKeyRing) # c.n THEN FALSE
  ELSE TRUE

-----------------------------------------------------------------------------
(* Device: the keys of a device and their encryption *)

MaxAccounts == 2                    \* copayers (accounts) of one device

Passwords    == { "pw1", "pw2" }    \* a password is a non-empty string; "" is none given
RootXPrivKey == "xprv"
Words        == "words"

sjclEncrypt(password, plaintext) == "sjcl{" \o password \o ":" \o plaintext \o "}"

\* every sjcl text there is, with the password and the plaintext it was made from
SjclTexts == { <<sjclEncrypt(p, s), p, s>> : p \in Passwords, s \in { RootXPrivKey, Words } }

\* sjcl.decrypt: throws unless the text was encrypted under this very password
sjclDecrypt(password, ciphertext) ==
  IF \E t \in SjclTexts : t[1] = ciphertext /\ t[2] = password
  THEN [ threw |-> FALSE,
         value |-> (CHOOSE t \in SjclTexts : t[1] = ciphertext /\ t[2] = password)[3] ]
  ELSE [ threw |-> TRUE, value |-> "" ]

AccountNames == << "A", "B", "C", "D", "E", "F", "G" >>

\* HDPrivateKey(xPrivKey).deriveChild(getBaseDerivationPath(account)); a missing
\* xPrivKey makes HDPrivateKey generate a key of its own, unrelated to the device
deriveAccount(xPrivKey, account) ==
  IF xPrivKey = "" THEN "xprv?" ELSE xPrivKey \o AccountNames[account + 1]

hdPublicKey(xPrivKey) ==
  IF \E i \in 1..Len(AccountNames) : xPrivKey = RootXPrivKey \o AccountNames[i]
  THEN "xpub" \o AccountNames[CHOOSE i \in 1..Len(AccountNames) :
                                xPrivKey = RootXPrivKey \o AccountNames[i]]
  ELSE "xpub?"

\* new Device(): the FIELDS of lib/device.js.  In the model the field copayers
\* holds the copayers after copayers[0]; copayers[0] is the object API.copayer
\* refers to and lives in the variable copayer.
NewDevice ==
  [ coin |-> "obyte", network |-> "", derivationStrategy |-> "BIP44",
    xPrivKey |-> "", xPubKey |-> "", xPrivKeyEncrypted |-> "",
    mnemonic |-> "", mnemonicEncrypted |-> "", mnemonicHasPassphrase |-> "",
    requestPrivKey |-> "", requestPubKey |-> "", personalEncryptingKey |-> "",
    entropySource |-> "", deviceId |-> "", devicePubKey |-> "", copayers |-> <<>> ]

\* Device._expand for a device that has its xPrivKey
DeviceExpand(x) ==
  [ x EXCEPT !.xPubKey = "xpub(" \o x.xPrivKey \o ")",
             !.devicePubKey = "devpub(" \o x.xPrivKey \o ")",
             !.requestPrivKey = "reqPrivA",
             !.requestPubKey = "reqA",
             !.entropySource = "entropy(reqPrivA)",
             !.personalEncryptingKey = "personal(dev)",
             !.deviceId = "0DEV(xpubA)" ]

DeviceCreate(coin, network) ==
  DeviceExpand([ NewDevice EXCEPT !.coin = coin, !.network = network,
                                  !.xPrivKey = RootXPrivKey ])

DeviceCreateWithMnemonic(coin, network) ==
  DeviceExpand([ NewDevice EXCEPT !.coin = coin, !.network = network,
                                  !.xPrivKey = RootXPrivKey, !.mnemonic = Words,
                                  !.mnemonicHasPassphrase = "false" ])

isPrivKeyEncrypted(d) == d.xPrivKeyEncrypted # "" /\ d.xPrivKey = ""

\* encryptPrivateKey without its `delete this.mnemonic`
encryptPrivateKeyKeepsMnemonic(d, password) ==
  IF d.xPrivKeyEncrypted # ""
  THEN [ threw |-> "Private key already encrypted", device |-> d ]
  ELSE IF d.xPrivKey = ""
  THEN [ threw |-> "No private key to encrypt", device |-> d ]
  ELSE [ threw |-> "",
         device |-> [ d EXCEPT !.xPrivKeyEncrypted = sjclEncrypt(password, d.xPrivKey),
                               !.mnemonicEncrypted = IF d.mnemonic # ""
                                                     THEN sjclEncrypt(password, d.mnemonic)
                                                     ELSE d.mnemonicEncrypted,
                               !.xPrivKey = "" ] ]

\* encryptPrivateKey that runs _expand again on a device left without xPrivKey
encryptPrivateKeyExpandsAgain(d, password) ==
  IF d.xPrivKeyEncrypted # ""
  THEN [ threw |-> "Private key already encrypted", device |-> d ]
  ELSE IF d.xPrivKey = ""
  THEN [ threw |-> "No private key to encrypt", device |-> d ]
  ELSE [ threw |-> "",
         device |-> [ d EXCEPT !.xPrivKeyEncrypted = sjclEncrypt(password, d.xPrivKey),
                               !.mnemonicEncrypted = IF d.mnemonic # ""
                                                     THEN sjclEncrypt(password, d.mnemonic)
                                                     ELSE d.mnemonicEncrypted,
                               !.xPrivKey = "",
                               !.mnemonic = "",
                               !.xPubKey = "xpub()",
                               !.devicePubKey = "devpub()" ] ]

\* Device.encryptPrivateKey: [threw, device]; threw = "" when it returned
encryptPrivateKey(d, password) ==
  IF d.xPrivKeyEncrypted # ""
  THEN [ threw |-> "Private key already encrypted", device |-> d ]
  ELSE IF d.xPrivKey = ""
  THEN [ threw |-> "No private key to encrypt", device |-> d ]
  ELSE [ threw |-> "",
         device |-> [ d EXCEPT !.xPrivKeyEncrypted = sjclEncrypt(password, d.xPrivKey),
                               !.mnemonicEncrypted = IF d.mnemonic # ""
                                                     THEN sjclEncrypt(password, d.mnemonic)
                                                     ELSE d.mnemonicEncrypted,
                               !.xPrivKey = "",
                               !.mnemonic = "" ] ]

\* decryptPrivateKey that forgets the mnemonic
decryptPrivateKeyDropsMnemonic(d, password) ==
  IF d.xPrivKeyEncrypted = ""
  THEN [ threw |-> "Private key is not encrypted", device |-> d ]
  ELSE LET k == sjclDecrypt(password, d.xPrivKeyEncrypted)
       IN  IF k.threw THEN [ threw |-> "Could not decrypt", device |-> d ]
           ELSE [ threw |-> "",
                  device |-> [ d EXCEPT !.xPrivKey = k.value,
                                        !.xPrivKeyEncrypted = "",
                                        !.mnemonicEncrypted = "" ] ]

\* Device.decryptPrivateKey: [threw, device].  The assignments are made as the
\* decryptions succeed, so a failure on the mnemonic leaves xPrivKey assigned.
decryptPrivateKey(d, password) ==
  IF d.xPrivKeyEncrypted = ""
  THEN [ threw |-> "Private key is not encrypted", device |-> d ]
  ELSE LET k  == sjclDecrypt(password, d.xPrivKeyEncrypted)
           d1 == [ d EXCEPT !.xPrivKey = k.value ]
           mn == sjclDecrypt(password, d.mnemonicEncrypted)
       IN  IF k.threw THEN [ threw |-> "Could not decrypt", device |-> d ]
           ELSE IF d.mnemonicEncrypted # "" /\ mn.threw
           THEN [ threw |-> "Could not decrypt", device |-> d1 ]
           ELSE [ threw |-> "",
                  device |-> [ d1 EXCEPT !.mnemonic = IF d.mnemonicEncrypted # ""
                                                      THEN mn.value ELSE d.mnemonic,
                                         !.xPrivKeyEncrypted = "",
                                         !.mnemonicEncrypted = "" ] ]

\* getKeys that hands out the fields as they are stored
getKeysAsStored(d, password) ==
  IF isPrivKeyEncrypted(d)
  THEN IF password = ""
       THEN [ threw |-> "Private keys are encrypted, a password is needed",
              keys |-> [ xPrivKey |-> "", mnemonic |-> "" ] ]
       ELSE [ threw |-> "",
              keys |-> [ xPrivKey |-> d.xPrivKeyEncrypted, mnemonic |-> d.mnemonicEncrypted ] ]
  ELSE [ threw |-> "", keys |-> [ xPrivKey |-> d.xPrivKey, mnemonic |-> d.mnemonic ] ]

\* Device.getKeys: [threw, keys]; the decrypted values go to a local object
getKeys(d, password) ==
  IF isPrivKeyEncrypted(d)
  THEN IF password = ""
       THEN [ threw |-> "Private keys are encrypted, a password is needed",
              keys |-> [ xPrivKey |-> "", mnemonic |-> "" ] ]
       ELSE LET k  == sjclDecrypt(password, d.xPrivKeyEncrypted)
                mn == sjclDecrypt(password, d.mnemonicEncrypted)
            IN  IF k.threw \/ (d.mnemonicEncrypted # "" /\ mn.threw)
                THEN [ threw |-> "Could not decrypt",
                       keys |-> [ xPrivKey |-> "", mnemonic |-> "" ] ]
                ELSE [ threw |-> "",
                       keys |-> [ xPrivKey |-> k.value,
                                  mnemonic |-> IF d.mnemonicEncrypted # ""
                                               THEN mn.value ELSE "" ] ]
  ELSE [ threw |-> "", keys |-> [ xPrivKey |-> d.xPrivKey, mnemonic |-> d.mnemonic ] ]

canSign(d) == d.xPrivKey # "" \/ d.xPrivKeyEncrypted # ""

setNoSign(d) ==
  [ d EXCEPT !.xPrivKey = "", !.xPrivKeyEncrypted = "", !.mnemonic = "",
             !.mnemonicEncrypted = "" ]

clearMnemonic(d) == [ d EXCEPT !.mnemonic = "", !.mnemonicEncrypted = "" ]

\* Device.getDerivedXPrivKey: [threw, key]
getDerivedXPrivKey(d, account, password) ==
  LET r == getKeys(d, password)
  IN  IF r.threw # "" THEN [ threw |-> r.threw, key |-> "" ]
      ELSE [ threw |-> "", key |-> deriveAccount(r.keys.xPrivKey, account) ]

\* getNewAccount that counts the copayers
getNewAccountByCount(copayers) == Len(copayers)

\* Device.getNewAccount over the whole list of copayers
getNewAccount(copayers) ==
  IF copayers = <<>> THEN 0
  ELSE (CHOOSE a \in { copayers[i].account : i \in 1..Len(copayers) } :
          \A i \in 1..Len(copayers) : copayers[i].account <= a) + 1

MaxAccountIndex == 4                \* the largest account a copayer is added for
MaxCopayerList  == 3                \* copayers in the list of one device

\* API.copayer before the first copayer is added
NoCopayer ==
  [ fromExtendedPublicKey("", "", 0) EXCEPT !.copayerId = "", !.publicKeyRing = <<>> ]

\* device.copayers as the code holds it
AllCopayers(d, c) == IF c.xPubKey = "" THEN <<>> ELSE << c >> \o d.copayers

\* _.map(this.copayers, item => item.account)
accountsOf(copayers) == [ i \in 1..Len(copayers) |-> copayers[i].account ]

\* `account in accounts` on an array: true when the array has the INDEX account
accountIn(account, accounts) == account < Len(accounts)

\* Device.addCopayer: [threw, added, copayers]
addCopayer(copayers, d, account, password) ==
  IF accountIn(account, accountsOf(copayers))
  THEN [ threw |-> "", added |-> FALSE, copayers |-> copayers ]
  ELSE LET k == getDerivedXPrivKey(d, account, password)
       IN  IF k.threw # ""
           THEN [ threw |-> k.threw, added |-> FALSE, copayers |-> copayers ]
           ELSE [ threw |-> "", added |-> TRUE,
                  copayers |-> Append(copayers,
                                      fromExtendedPublicKey(d.deviceId, hdPublicKey(k.key), account)) ]

\* Device.getCopayer: [returned, copayer]; returned is "copayer", "null", or
\* "undefined" when indexOf gave -1 and this.copayers[-1] was read
getCopayer(copayers, account) ==
  LET accounts == accountsOf(copayers)
  IN  IF accountIn(account, accounts)
      THEN IF \E i \in 1..Len(accounts) : accounts[i] = account
           THEN [ returned |-> "copayer",
                  copayer |-> copayers[CHOOSE i \in 1..Len(accounts) :
                                         /\ accounts[i] = account
                                         /\ \A j \in 1..Len(accounts) :
                                              accounts[j] = account => i <= j] ]
           ELSE [ returned |-> "undefined", copayer |-> NoCopayer ]
      ELSE [ returned |-> "null", copayer |-> NoCopayer ]

\* the Device object as the code holds it: copayers[0] is API.copayer
DeviceObject(d, c) == [ d EXCEPT !.copayers = << c >> \o d.copayers ]

DeviceFIELDS ==
  { "coin", "network", "derivationStrategy", "xPrivKey", "xPubKey", "xPrivKeyEncrypted",
    "mnemonic", "mnemonicEncrypted", "mnemonicHasPassphrase", "requestPrivKey",
    "requestPubKey", "personalEncryptingKey", "entropySource", "deviceId", "devicePubKey",
    "copayers" }

CopayerFIELDS ==
  { "account", "copayerId", "copayerName", "xPubKey", "walletId", "walletName", "m", "n",
    "publicKeyRing", "walletPrivKey", "sharedEncryptingKey", "addressType" }

\* Copayer.fromObj without the default of addressType
CopayerFromObjNoDefault(obj) == [ k \in CopayerFIELDS |-> obj[k] ]

\* Copayer.fromObj: the FIELDS are copied, then account and addressType get
\* their defaults (account || 0 leaves every number as it is)
CopayerFromObj(obj) ==
  LET x == [ k \in CopayerFIELDS |-> obj[k] ]
  IN  [ x EXCEPT !.addressType = IF x.addressType = "" THEN NORMAL ELSE x.addressType ]

CopayerToObj(c) == [ k \in CopayerFIELDS |-> c[k] ]

\* Device.fromObj
DeviceFromObj(obj) ==
  LET x == [ k \in DeviceFIELDS |-> obj[k] ]
  IN  [ x EXCEPT !.coin = IF x.coin = "" THEN "obyte" ELSE x.coin,
                 !.network = IF x.network = "" THEN "livenet" ELSE x.network,
                 !.derivationStrategy = IF x.derivationStrategy = "" THEN "BIP44"
                                        ELSE x.derivationStrategy,
                 !.copayers = [ i \in 1..Len(x.copayers) |-> CopayerFromObj(x.copayers[i]) ] ]

DeviceToObj(x) == [ k \in DeviceFIELDS |-> x[k] ]

\* JSON.stringify / JSON.parse: a text that names the object's defined members (a
\* member that is undefined, "" here, is left out and reads as undefined again);
\* a Copayer among the members is written with the members it has
JSONstringify(obj) ==
  [ json |-> [ obj EXCEPT !.copayers =
                 [ i \in 1..Len(obj.copayers) |-> CopayerToObj(obj.copayers[i]) ] ] ]

JSONparse(str) == str.json

ExportOpts ==
  { [ noSign |-> FALSE, password |-> "" ], [ noSign |-> TRUE, password |-> "" ] }
  \cup { [ noSign |-> FALSE, password |-> p ] : p \in Passwords }

\* API.export on a device that has setNoSign / decryptPrivateKey act on this.device
apiExportInPlace(d, c, opts) ==
  LET obj == DeviceObject(d, c)
      r   == IF opts.noSign THEN [ threw |-> "", device |-> setNoSign(obj) ]
             ELSE IF opts.password # "" THEN decryptPrivateKey(obj, opts.password)
             ELSE [ threw |-> "", device |-> obj ]
  IN  [ threw  |-> r.threw,
        output |-> JSONstringify(DeviceToObj(r.device)),
        device |-> [ r.device EXCEPT !.copayers = Tail(r.device.copayers) ] ]

\* API.export: [threw, output, device]; device is this.device when export is left.
\* The work is done on d = Device.fromObj(this.device), an object of its own.
apiExport(d, c, opts) ==
  LET copy == DeviceFromObj(DeviceObject(d, c))
      r    == IF opts.noSign THEN [ threw |-> "", device |-> setNoSign(copy) ]
              ELSE IF opts.password # "" THEN decryptPrivateKey(copy, opts.password)
              ELSE [ threw |-> "", device |-> copy ]
  IN  [ threw  |-> r.threw,
        output |-> JSONstringify(DeviceToObj(r.device)),
        device |-> d ]

\* API.import of a text made by export: [device, copayer] in the model's split
apiImport(str, c) ==
  LET x == DeviceFromObj(JSONparse(str))
  IN  [ device  |-> [ x EXCEPT !.copayers = IF x.copayers = <<>> THEN <<>> ELSE Tail(x.copayers) ],
        copayer |-> IF x.copayers = <<>> THEN c ELSE x.copayers[1] ]

-----------------------------------------------------------------------------
(* Verifier *)

\* Verifier.checkAddress: "true" | "false" | "throw" (deriveAddress raised)
checkAddress(c, address) ==
  LET type  == IF address.type # "" THEN address.type ELSE c.addressType
      local == deriveAddress(c.walletId, type, c.publicKeyRing, address.path, c.m)
  IN  IF local.threw THEN "throw"
      ELSE IF local.address = address.address THEN "true" ELSE "false"

\* `copayers.xPubKey` reads a property of the ARRAY, which it does not have: the key
\* under which every entry is counted is the string "undefined"
uniqKey(copayers, entry) == "undefined"

\* value of `uniq[k]++` as a condition: ToNumber(undefined) and NaN are both NaN (falsy)
postIncrementTruthy(old) == old \notin { "undefined", "NaN" }

\* a variant that tests the fields' presence but not the signature
copayerEntryOkUnverified(entry, walletPubKey) ==
  LET signedName == IF entry.encryptedName # "" THEN entry.encryptedName ELSE entry.name
  IN  ~(signedName = "" \/ entry.xPubKey = "" \/ entry.requestPubKey = "" \/ entry.signature = "")

copayerEntryOk(entry, walletPubKey) ==
  LET signedName == IF entry.encryptedName # "" THEN entry.encryptedName ELSE entry.name
  IN  IF signedName = "" \/ entry.xPubKey = "" \/ entry.requestPubKey = "" \/ entry.signature = ""
      THEN FALSE
      ELSE verifyMessage(getCopayerHash(signedName, entry.xPubKey, entry.requestPubKey),
                         entry.signature, walletPubKey)

\* the _.each loop of checkCopayers from entry i on: uniq is the counter table, given
\* as the set of keys already incremented (undefined + 1 is NaN, NaN + 1 is NaN, so a
\* key that was incremented holds NaN); error is the flag.  Returns the final flag.
RECURSIVE checkCopayersLoop(_, _, _, _, _)
checkCopayersLoop(copayers, walletPubKey, i, uniq, error) ==
  IF i > Len(copayers) THEN error
  ELSE IF error THEN checkCopayersLoop(copayers, walletPubKey, i + 1, uniq, error)
  ELSE LET k        == uniqKey(copayers, copayers[i])
           old      == IF k \in uniq THEN "NaN" ELSE "undefined"
           repeated == postIncrementTruthy(old)
           bad      == ~copayerEntryOk(copayers[i], walletPubKey)
       IN  checkCopayersLoop(copayers, walletPubKey, i + 1, uniq \cup {k}, repeated \/ bad)

\* Verifier.checkCopayers (requires c.walletPrivKey)
checkCopayers(c, copayers) ==
  LET walletPubKey == toPublicKey(c.walletPrivKey)
  IN  IF Len(copayers) # c.n THEN FALSE
      ELSE IF checkCopayersLoop(copayers, walletPubKey, 1, {}, FALSE) THEN FALSE
      ELSE IF c.xPubKey \notin { copayers[i].xPubKey : i \in 1..Len(copayers) } THEN FALSE
      ELSE TRUE

strEqual(str1, str2) == (str1 = "" /\ str2 = "") \/ (str1 = str2)

\* index (1-based) of the first element outputs.find() returns, 0 when none
findOutput(outputs, output) ==
  LET hits == { j \in 1..Len(outputs) :
                  strEqual(output.address, outputs[j].address) /\ output.amount = outputs[j].amount }
  IN  IF hits = {} THEN 0 ELSE CHOOSE j \in hits : \A h \in hits : j <= h

\* outputs.splice(ret, 1) is called with the found OBJECT as start index: ToInteger of
\* an object is NaN, taken as 0, so the first element is the one removed
spliceStart(outputs, foundIndex) == 1

removeAt(s, k) == SubSeq(s, 1, k - 1) \o SubSeq(s, k + 1, Len(s))

\* the for loop of checkProposalCreation from submitted output i on: [ok, rest]
RECURSIVE matchOutputs(_, _, _)
matchOutputs(argsOutputs, i, outputs) ==
  IF i > Len(argsOutputs) THEN [ok |-> TRUE, rest |-> outputs]
  ELSE LET ret == findOutput(outputs, argsOutputs[i])
       IN  IF ret = 0 THEN [ok |-> FALSE, rest |-> outputs]
           ELSE matchOutputs(argsOutputs, i + 1, removeAt(outputs, spliceStart(outputs, ret)))

\* a variant that lets one output be left whether or not a change address is named
changeOutputLeftAtMostOne(txp, rest) == Len(rest) <= 1

\* the two tests on what is left of the service's outputs once every submitted output
\* has taken one away: the change output, exactly when the proposal names a change address
changeOutputLeft(txp, rest) ==
  IF txp.params.change_address # "" /\ Len(rest) # 1 THEN FALSE
  ELSE IF txp.params.change_address = "" /\ Len(rest) # 0 THEN FALSE
  ELSE TRUE

\* the checks every proposal goes through after the payment block
checkMessageAndCustomData(args, txp, encryptingKey) ==
  LET decryptedMessage == decryptMessage(args.message, encryptingKey)
  IN  IF decryptedMessage.threw THEN "false"
      ELSE IF ~strEqual(txp.message, decryptedMessage.value) THEN "false"
      ELSE IF (args.customData # "" \/ txp.customData # "") /\ txp.customData # args.customData
           THEN "false"
      ELSE "true"

\* the send_all branch: compares the first outputs' addresses and returns
checkSendAll(args, txp, encryptingKey) ==
  IF Len(args.params.outputs) = 0 \/ Len(txp.params.outputs) = 0 THEN "throw"
  ELSE IF args.params.outputs[1].address # txp.params.outputs[1].address THEN "false"
  ELSE "true"

\* Verifier.checkProposalCreation: "true" | "false" | "throw" (TypeError on a missing output)
checkProposalCreation(args, txp, encryptingKey) ==
  IF args.app = "payment"
  THEN IF args.params.send_all THEN checkSendAll(args, txp, encryptingKey)
       ELSE IF args.params.change_address # ""
               /\ ~strEqual(txp.params.change_address, args.params.change_address) THEN "false"
       ELSE LET r == matchOutputs(args.params.outputs, 1, txp.params.outputs)
            IN  IF ~r.ok THEN "false"
                ELSE IF ~changeOutputLeft(txp, r.rest) THEN "false"
                ELSE checkMessageAndCustomData(args, txp, encryptingKey)
  ELSE checkMessageAndCustomData(args, txp, encryptingKey)

-----------------------------------------------------------------------------
(* The wallet service: what it may answer.  It is not trusted, so every answer *)
(* below is drawn from all combinations of honest and tampered parts.          *)

MyXPubKey == "xpubA"
WalletKey == "wpk1"                       \* the secret of the wallet this copayer creates / joins
WalletAES == privateKeyToAESKey(WalletKey)

Errs == { "NOT_FOUND" }                   \* a transport / protocol fault handed to the callback

signedEntry(xPubKey, requestPubKey, plainName, signer, customData, account) ==
  LET name == encryptMessage(plainName, WalletAES)
  IN  [ id            |-> xPubToCopayerId(xPubKey),
        name          |-> name,
        xPubKey       |-> xPubKey,
        requestPubKey |-> requestPubKey,
        signature     |-> IF signer = "" THEN ""
                          ELSE signMessage(getCopayerHash(name, xPubKey, requestPubKey), signer),
        customData    |-> customData,
        deviceId      |-> "0DEV(" \o xPubKey \o ")",
        account       |-> account ]

\* the copayer entries a wallet status may list
ServerCopayers ==
  { signedEntry(MyXPubKey, "reqA", "me", WalletKey, encryptMessage(WalletKey, "personal(dev)"), 0),
    signedEntry(MyXPubKey, "reqA", "me", WalletKey, "", 0),
    signedEntry("xpubB", "reqB", "bob", WalletKey, "", 0),
    signedEntry("xpubX", "reqX", "bob", "wpkX", "", 0),      \* signed with a key of the service's
    signedEntry("xpubX", "reqX", "bob", "", "", 0) }         \* not signed

WalletShapes == { mn \in (1..MaxN) \X (1..MaxN) : mn[1] <= mn[2] }

ServerWallets ==
  { [ id |-> "w1", name |-> encryptMessage("W", WalletAES), m |-> mn[1], n |-> mn[2],
      status |-> st, copayers |-> cs ] :
      mn \in WalletShapes, st \in { "pending", "complete" },
      cs \in SeqsUpTo(ServerCopayers, MaxCopayers) }

-----------------------------------------------------------------------------
(* API helpers *)

\* API._processWallet: decrypts the wallet's and the copayers' names in place
processCopayerName(entry, encryptingKey) ==
  LET name == decryptMessageNoThrow(entry.name, encryptingKey)
  IN  [ id            |-> entry.id,
        name          |-> name,
        encryptedName |-> IF name # entry.name THEN entry.name ELSE "",
        xPubKey       |-> entry.xPubKey,
        requestPubKey |-> entry.requestPubKey,
        signature     |-> entry.signature,
        customData    |-> entry.customData,
        deviceId      |-> entry.deviceId,
        account       |-> entry.account ]

processWallet(wallet, encryptingKey) ==
  [wallet EXCEPT !.name = decryptMessageNoThrow(wallet.name, encryptingKey),
                 !.copayers = [ i \in 1..Len(wallet.copayers) |->
                                  processCopayerName(wallet.copayers[i], encryptingKey) ]]

\* _.find(copayers, {id: copayerId}): index of the first such entry, 0 when none
findCopayer(copayers, copayerId) ==
  LET hits == { i \in 1..Len(copayers) : copayers[i].id = copayerId }
  IN  IF hits = {} THEN 0 ELSE CHOOSE i \in hits : \A h \in hits : i <= h

\* processCustomData of API._processStatus: the copayer afterwards
processCustomData(c, d, wallet) ==
  LET me == findCopayer(wallet.copayers, c.copayerId)
  IN  IF me = 0 THEN c
      ELSE IF wallet.copayers[me].customData = "" THEN c
      ELSE LET customData == decryptMessage(wallet.copayers[me].customData, d.personalEncryptingKey)
           IN  IF customData.threw \/ customData.value = "" THEN c
               ELSE IF c.walletPrivKey = "" THEN addWalletPrivateKey(c, customData.value)
               ELSE c

\* API._extractPublicKeyRing
extractPublicKeyRing(copayers) ==
  [ i \in 1..Len(copayers) |->
      [ xPubKey |-> copayers[i].xPubKey, requestPubKey |-> copayers[i].requestPubKey,
        deviceId |-> copayers[i].deviceId, account |-> copayers[i].account,
        copayerName |-> copayers[i].name ] ]

-----------------------------------------------------------------------------
(* API calls.  A call is two steps: the call itself, which sends the request,  *)
(* and the callback that handles the service's answer.  One call is in flight  *)
(* at a time.  A call guarded by _checkKeyDerivation() has a second action for *)
(* the refusal (CreateWalletRefused, ...), found with validateKeyDerivation in *)
(* the section on key derivation; where validateKeyDerivation is not among the *)
(* calls of a specification, keyDerivationOk stays undefined and the guard     *)
(* passes.                                                                     *)

NoCall == [ op |-> "none" ]

\* _checkKeyDerivation() that lets every value of keyDerivationOk pass
\* a client that never logged in and never called initialize
NoSession ==
  /\ session = ""
  /\ notificationsIntervalId = 0
  /\ timers = {}
  /\ lastNotificationId = 0
  /\ deviceValidated = FALSE

checkKeyDerivationAlways == keyDerivationOk \in { "undefined", "true", "false" }

\* API._checkKeyDerivation: only the value false refuses
checkKeyDerivation == ~(keyDerivationOk = "false")

\* API.createWallet up to its first request: the wallet secret is recorded at once
CreateWallet ==
  /\ pending.op = "none"
  /\ checkKeyDerivation
  /\ \E mn \in WalletShapes :
       pending' = [ op |-> "createWallet", pre |-> copayer, m |-> mn[1], n |-> mn[2] ]
  /\ copayer' = addWalletPrivateKey(copayer, WalletKey)
  /\ last' = NoCall
  /\ UNCHANGED <<device, keyDerivationOk, session, notificationsIntervalId, timers, lastNotificationId, deviceValidated>>

\* the callbacks of API.createWallet: wallet created (err1), then joined (err2)
CreateWalletDone ==
  /\ pending.op = "createWallet"
  /\ \E err1 \in Errs \cup {""}, err2 \in Errs \cup {""} :
       /\ copayer' = IF err1 # "" THEN copayer
                     ELSE addWalletInfo(copayer, device.deviceId, "w1", "W", pending.m, pending.n,
                                        device.requestPubKey, "me")
       /\ last' = [ op |-> "createWallet", pre |-> pending.pre,
                    outcome |-> IF err1 # "" \/ err2 # "" THEN "error" ELSE "ok" ]
  /\ pending' = NoCall
  /\ UNCHANGED <<device, keyDerivationOk, session, notificationsIntervalId, timers, lastNotificationId, deviceValidated>>

\* API.joinWallet up to its request
JoinWallet ==
  /\ pending.op = "none"
  /\ checkKeyDerivation
  /\ \E dryRun \in BOOLEAN :
       pending' = [ op |-> "joinWallet", pre |-> copayer, dryRun |-> dryRun ]
  /\ copayer' = addWalletPrivateKey(copayer, WalletKey)
  /\ last' = NoCall
  /\ UNCHANGED <<device, keyDerivationOk, session, notificationsIntervalId, timers, lastNotificationId, deviceValidated>>

\* the callback of API.joinWallet
JoinWalletDone ==
  /\ pending.op = "joinWallet"
  /\ \E err \in Errs \cup {""}, mn \in WalletShapes :
       LET answer == [ id |-> "w1", name |-> encryptMessage("W", WalletAES), m |-> mn[1],
                       n |-> mn[2], status |-> "pending", copayers |-> <<>> ]
           wallet == processWallet(answer, copayer.sharedEncryptingKey)
       IN  /\ copayer' = IF err = "" /\ ~pending.dryRun
                         THEN addWalletInfo(copayer, device.deviceId, wallet.id, wallet.name,
                                            wallet.m, wallet.n, device.requestPubKey, "me")
                         ELSE copayer
           /\ last' = [ op |-> "joinWallet", pre |-> pending.pre, dryRun |-> pending.dryRun,
                        outcome |-> IF err # "" THEN "error" ELSE "ok" ]
  /\ pending' = NoCall
  /\ UNCHANGED <<device, keyDerivationOk, session, notificationsIntervalId, timers, lastNotificationId, deviceValidated>>

\* the callback of API.openWallet on a status `ret.wallet`: the copayer afterwards,
\* what the caller got, whether walletCompleted was emitted, and the call of
\* Verifier.checkCopayers it made (if any): its subject, its list, its verdict
openWalletCallback(c, d, answer) ==
  LET c1     == processCustomData(c, d, answer)
      wallet == processWallet(answer, c1.sharedEncryptingKey)
      me     == findCopayer(wallet.copayers, c1.copayerId)
      c2     == IF hasWalletInfo(c1) \/ me = 0 THEN c1
                ELSE addWalletInfo(c1, d.deviceId, wallet.id, wallet.name, wallet.m, wallet.n,
                                   d.requestPubKey, wallet.copayers[me].name)
      checks == c2.walletPrivKey # ""
      base   == [ copayer |-> c2, outcome |-> "ok", emitted |-> FALSE, checked |-> FALSE,
                  verdict |-> FALSE, subject |-> c2, copayers |-> wallet.copayers ]
  IN  IF isComplete(c1) /\ hasWalletInfo(c1) THEN [base EXCEPT !.copayer = c1]
      ELSE IF ~hasWalletInfo(c1) /\ me = 0 THEN [base EXCEPT !.copayer = c1, !.outcome = "raise"]
      ELSE IF wallet.status # "complete" THEN base
      ELSE IF checks /\ ~checkCopayers(c2, wallet.copayers)
           THEN [base EXCEPT !.outcome = "SERVER_COMPROMISED", !.checked = TRUE]
      ELSE [base EXCEPT !.copayer = addPublicKeyRing(c2, extractPublicKeyRing(wallet.copayers)),
                        !.emitted = TRUE, !.checked = checks, !.verdict = checks]

\* API.openWallet up to its request
OpenWallet ==
  /\ pending.op = "none"
  /\ pending' = [ op |-> "openWallet", pre |-> copayer ]
  /\ last' = NoCall
  /\ UNCHANGED <<device, copayer, keyDerivationOk, session, notificationsIntervalId, timers, lastNotificationId, deviceValidated>>

\* the callback of API.openWallet
OpenWalletDone ==
  /\ pending.op = "openWallet"
  /\ \/ \E err \in Errs :
          /\ last' = [ op |-> "openWallet", pre |-> pending.pre, outcome |-> "error",
                       emitted |-> FALSE, checked |-> FALSE, verdict |-> FALSE,
                       subject |-> copayer, copayers |-> <<>> ]
          /\ UNCHANGED copayer
     \/ \E answer \in ServerWallets :
          LET r == openWalletCallback(copayer, device, answer)
          IN  /\ copayer' = r.copayer
              /\ last' = [ op |-> "openWallet", pre |-> pending.pre, outcome |-> r.outcome,
                           emitted |-> r.emitted, checked |-> r.checked, verdict |-> r.verdict,
                           subject |-> r.subject, copayers |-> r.copayers ]
  /\ pending' = NoCall
  /\ UNCHANGED <<device, keyDerivationOk, session, notificationsIntervalId, timers, lastNotificationId, deviceValidated>>

-----------------------------------------------------------------------------
(* Addresses *)

AddressTypesSent == { "", NORMAL, SHARED, SCRIPT, "bogus" }
PathsSent        == Paths \cup { HardenedPath }

\* the address strings the service may send: none, a made-up one, and every address
\* that can be derived from this copayer's keys under either policy
AddressesSent(c) ==
  { "", "FAKE" } \cup
  { deriveAddress(c.walletId, t, c.publicKeyRing, p, c.m).address : t \in { NORMAL, SHARED }, p \in Paths }

\* the entries of an address list: the honest one, a made-up address, an address of a
\* type the service picked, an entry whose local derivation raises (type, path)
AddressSamples(c) ==
  { [ type |-> "", path |-> "m/0/0",
      address |-> deriveAddress(c.walletId, c.addressType, c.publicKeyRing, "m/0/0", c.m).address ],
    [ type |-> "", path |-> "m/0/0", address |-> "FAKE" ],
    [ type |-> SCRIPT, path |-> "m/0/1", address |-> "" ],
    [ type |-> "bogus", path |-> "m/0/0", address |-> "FAKE" ],
    [ type |-> "", path |-> HardenedPath, address |-> "FAKE" ] }

\* the callback of API.createAddress on an answered address: what the caller got
createAddressCallback(c, address) ==
  LET v == checkAddress(c, address)
  IN  IF v = "throw" THEN [ outcome |-> "raise", delivered |-> <<>> ]
      ELSE IF v = "false" THEN [ outcome |-> "SERVER_COMPROMISED", delivered |-> <<>> ]
      ELSE [ outcome |-> "ok", delivered |-> << address >> ]

\* _.some(addresses, a => !checkAddress(copayer, a)) from entry i on; stops at the
\* first failing entry, and is left by the exception when a derivation raises
RECURSIVE someFake(_, _, _)
someFake(c, addresses, i) ==
  IF i > Len(addresses) THEN "false"
  ELSE LET v == checkAddress(c, addresses[i])
       IN  IF v = "throw" THEN "throw"
           ELSE IF v = "false" THEN "true"
           ELSE someFake(c, addresses, i + 1)

\* the callback of API.getMainAddresses on an answered list
getMainAddressesCallback(c, doNotVerify, addresses) ==
  LET fake == IF doNotVerify THEN "false" ELSE someFake(c, addresses, 1)
  IN  IF fake = "throw" THEN [ outcome |-> "raise", delivered |-> <<>> ]
      ELSE IF fake = "true" THEN [ outcome |-> "SERVER_COMPROMISED", delivered |-> <<>> ]
      ELSE [ outcome |-> "ok", delivered |-> addresses ]

\* API.createAddress up to its request
CreateAddress ==
  /\ pending.op = "none"
  /\ isComplete(copayer)
  /\ checkKeyDerivation
  /\ pending' = [ op |-> "createAddress", pre |-> copayer, doNotVerify |-> FALSE ]
  /\ last' = NoCall
  /\ UNCHANGED <<device, copayer, keyDerivationOk, session, notificationsIntervalId, timers, lastNotificationId, deviceValidated>>

\* API.getMainAddresses up to its request
GetMainAddresses ==
  /\ pending.op = "none"
  /\ isComplete(copayer)
  /\ \E doNotVerify \in BOOLEAN :
       pending' = [ op |-> "getMainAddresses", pre |-> copayer, doNotVerify |-> doNotVerify ]
  /\ last' = NoCall
  /\ UNCHANGED <<device, copayer, keyDerivationOk, session, notificationsIntervalId, timers, lastNotificationId, deviceValidated>>

\* the callback of API.createAddress
CreateAddressDone ==
  /\ pending.op = "createAddress"
  /\ \/ \E err \in Errs :
          last' = [ op |-> "createAddress", pre |-> pending.pre, doNotVerify |-> FALSE,
                    answer |-> <<>>, outcome |-> "error", delivered |-> <<>> ]
     \/ \E t \in AddressTypesSent, p \in PathsSent, a \in AddressesSent(copayer) :
          LET address == [ type |-> t, path |-> p, address |-> a ]
              r       == createAddressCallback(copayer, address)
          IN  last' = [ op |-> "createAddress", pre |-> pending.pre, doNotVerify |-> FALSE,
                        answer |-> << address >>, outcome |-> r.outcome, delivered |-> r.delivered ]
  /\ pending' = NoCall
  /\ UNCHANGED <<device, copayer, keyDerivationOk, session, notificationsIntervalId, timers, lastNotificationId, deviceValidated>>

\* the callback of API.getMainAddresses
GetMainAddressesDone ==
  /\ pending.op = "getMainAddresses"
  /\ \/ \E err \in Errs :
          last' = [ op |-> "getMainAddresses", pre |-> pending.pre,
                    doNotVerify |-> pending.doNotVerify,
                    answer |-> <<>>, outcome |-> "error", delivered |-> <<>> ]
     \/ \E addresses \in SeqsUpTo(AddressSamples(copayer), MaxAddresses) :
          LET r == getMainAddressesCallback(copayer, pending.doNotVerify, addresses)
          IN  last' = [ op |-> "getMainAddresses", pre |-> pending.pre,
                        doNotVerify |-> pending.doNotVerify,
                        answer |-> addresses, outcome |-> r.outcome, delivered |-> r.delivered ]
  /\ pending' = NoCall
  /\ UNCHANGED <<device, copayer, keyDerivationOk, session, notificationsIntervalId, timers, lastNotificationId, deviceValidated>>

-----------------------------------------------------------------------------
(* The wallet's life: created or joined, opened, asked for addresses *)

\* API.seedFromRandomWithMnemonic: deviceId "0DEV(xpubA)", requestPubKey "reqA",
\* personalEncryptingKey "personal(dev)", no copayer after the first
TheDevice == DeviceCreateWithMnemonic("obyte", "livenet")

\* Device.getNewAccount / API._import: a copayer made from the device's key alone
Init ==
  /\ device = TheDevice
  /\ copayer = fromExtendedPublicKey(TheDevice.deviceId, MyXPubKey, 0)
  /\ pending = NoCall
  /\ last = NoCall
  /\ keyDerivationOk = "undefined"
  /\ NoSession

Next ==
  \/ CreateWallet
  \/ CreateWalletDone
  \/ JoinWallet
  \/ JoinWalletDone
  \/ OpenWallet
  \/ OpenWalletDone
  \/ CreateAddress
  \/ CreateAddressDone
  \/ GetMainAddresses
  \/ GetMainAddressesDone

Spec == Init /\ [][Next]_vars

-----------------------------------------------------------------------------
(* Transaction proposals *)

Outputs == { [ address |-> "A1", amount |-> 1 ],
             [ address |-> "A1", amount |-> 2 ],
             [ address |-> "A2", amount |-> 1 ] }

ChangeAddresses == { "", "CHANGE" }       \* "": the proposal names no change address

\* what the user hands to createTxProposal: a payment of one output or more, or a text
ProposalOpts ==
  { [ app |-> "payment",
      params |-> [ send_all |-> sa, outputs |-> os, change_address |-> ch ],
      message |-> msg, customData |-> cd ] :
      sa \in BOOLEAN, os \in { o \in SeqsUpTo(Outputs, MaxArgsOutputs) : Len(o) >= 1 },
      ch \in ChangeAddresses, msg \in { "", "hello" }, cd \in { "", "cd" } }
  \cup
  { [ app |-> "text",
      params |-> [ send_all |-> FALSE, outputs |-> <<>>, change_address |-> "" ],
      message |-> msg, customData |-> cd ] : msg \in { "", "hello" }, cd \in { "", "cd" } }

\* API._getCreateTxProposalArgs: the request body
getCreateTxProposalArgs(opts, sharedEncryptingKey) ==
  [opts EXCEPT !.message = apiEncryptMessage(opts.message, sharedEncryptingKey)]

\* the proposals the service may answer with, message still encrypted
ServerTxps(app) ==
  { [ app |-> app,
      params |-> [ send_all |-> FALSE, outputs |-> os, change_address |-> ch ],
      message |-> msg, encryptedMessage |-> "", customData |-> cd ] :
      os \in SeqsUpTo(Outputs, MaxTxpOutputs), ch \in ChangeAddresses,
      msg \in { "", encryptMessage("hello", WalletAES), encryptMessage("dummy", WalletAES) },
      cd \in { "", "cd" } }

\* API._processTxps on one proposal: the message is decrypted in place
processTxps(txp, encryptingKey) ==
  [txp EXCEPT !.encryptedMessage = txp.message,
              !.message = decryptMessageNoThrow(txp.message, encryptingKey)]

\* the callback of API.createTxProposal on an answered proposal
createTxProposalCallback(c, args, answer) ==
  LET txp == processTxps(answer, c.sharedEncryptingKey)
      v   == checkProposalCreation(args, txp, c.sharedEncryptingKey)
  IN  [ txp |-> txp, verdict |-> v,
        outcome |-> IF v = "throw" THEN "raise"
                    ELSE IF v = "false" THEN "SERVER_COMPROMISED" ELSE "ok",
        delivered |-> (v = "true") ]

\* the callback of API.createTxProposal
CreateTxProposalDone ==
  /\ pending.op = "createTxProposal"
  /\ \/ \E err \in Errs :
          last' = [ op |-> "createTxProposal", args |-> pending.args,
                    encryptingKey |-> pending.encryptingKey,
                    txp |-> [ message |-> "" ], verdict |-> "none",
                    outcome |-> "error", delivered |-> FALSE ]
     \/ \E answer \in ServerTxps(pending.args.app) :
          LET r == createTxProposalCallback(copayer, pending.args, answer)
          IN  last' = [ op |-> "createTxProposal", args |-> pending.args,
                        encryptingKey |-> pending.encryptingKey,
                        txp |-> r.txp, verdict |-> r.verdict,
                        outcome |-> r.outcome, delivered |-> r.delivered ]
  /\ pending' = NoCall
  /\ UNCHANGED <<device, copayer, keyDerivationOk, session, notificationsIntervalId, timers, lastNotificationId, deviceValidated>>

\* a proposal as the Verifier is handed it: message in the clear
PlainTxps ==
  { [ app |-> "text",
      params |-> [ send_all |-> FALSE, outputs |-> <<>>, change_address |-> "" ],
      message |-> msg, encryptedMessage |-> "", customData |-> "" ] :
      msg \in { "", "hello", "dummy", ECANNOTDECRYPT } }

\* Verifier.checkProposalCreation called on its own
CheckProposalCreation ==
  /\ pending.op = "checkProposalCreation"
  /\ \E txp \in PlainTxps :
       LET v == checkProposalCreation(pending.args, txp, pending.encryptingKey)
       IN  last' = [ op |-> "checkProposalCreation", args |-> pending.args,
                     encryptingKey |-> pending.encryptingKey,
                     txp |-> txp, verdict |-> v, outcome |-> "returned", delivered |-> FALSE ]
  /\ pending' = NoCall
  /\ UNCHANGED <<device, copayer, keyDerivationOk, session, notificationsIntervalId, timers, lastNotificationId, deviceValidated>>

\* a copayer of a complete 1-of-1 wallet, as createWallet leaves it
WalletCopayer ==
  addWalletInfo(addWalletPrivateKey(fromExtendedPublicKey(TheDevice.deviceId, MyXPubKey, 0), WalletKey),
                TheDevice.deviceId, "w1", "W", 1, 1, TheDevice.requestPubKey, "me")

\* the arguments Verifier.checkProposalCreation is handed on its own: a message that is
\* no ciphertext, one encrypted under another key, one encrypted under the wallet's
VerifierArgs ==
  { [ app |-> "text",
      params |-> [ send_all |-> FALSE, outputs |-> <<>>, change_address |-> "" ],
      message |-> msg, customData |-> "" ] :
      msg \in { "hello", encryptMessage("hello", privateKeyToAESKey("wpkX")),
                encryptMessage("hello", WalletAES) } }

\* createTxProposal has been called, or the Verifier is about to be
InitProposal ==
  /\ device = TheDevice
  /\ copayer = WalletCopayer
  /\ last = NoCall
  /\ keyDerivationOk = "undefined"
  /\ NoSession
  /\ \/ \E opts \in ProposalOpts :
          pending = [ op |-> "createTxProposal",
                      args |-> getCreateTxProposalArgs(opts, WalletCopayer.sharedEncryptingKey),
                      encryptingKey |-> WalletCopayer.sharedEncryptingKey ]
     \/ \E args \in VerifierArgs, key \in { "", WalletAES } :
          pending = [ op |-> "checkProposalCreation", args |-> args, encryptingKey |-> key ]

NextProposal ==
  \/ CreateTxProposalDone
  \/ CheckProposalCreation

SpecProposal == InitProposal /\ [][NextProposal]_vars

-----------------------------------------------------------------------------
(* The keys of the device: encrypted and decrypted, read, exported and         *)
(* imported, used to sign a proposal.  The calls on the keys are synchronous:  *)
(* one step each, with the device before the call and what the caller got      *)
(* recorded in last.                                                           *)

\* a copayer as seedFrom... / _import (bare) or createWallet (with its wallet) leave it
RecoveredCopayer(account, withWallet) ==
  LET c == fromExtendedPublicKey(TheDevice.deviceId,
                                 hdPublicKey(deriveAccount(RootXPrivKey, account)), account)
  IN  IF withWallet
      THEN addWalletInfo(addWalletPrivateKey(c, WalletKey), TheDevice.deviceId, "w1", "W", 1, 1,
                         TheDevice.requestPubKey, "me")
      ELSE c

\* the lists of copayers a device can hold: account i - 1 at place i
CopayerLists ==
  { [ i \in 1..Len(w) |-> RecoveredCopayer(i - 1, w[i]) ] :
      w \in { v \in SeqsUpTo(BOOLEAN, MaxAccounts) : Len(v) >= 1 } }

\* API.encryptPrivateKey
EncryptPrivateKey ==
  /\ pending.op = "none"
  /\ \E password \in Passwords :
       LET r == encryptPrivateKey(device, password)
       IN  /\ device' = r.device
           /\ last' = [ op |-> "encryptPrivateKey", pre |-> device, password |-> password,
                        threw |-> r.threw ]
  /\ UNCHANGED <<copayer, pending, keyDerivationOk, session, notificationsIntervalId, timers, lastNotificationId, deviceValidated>>

\* API.decryptPrivateKey
DecryptPrivateKey ==
  /\ pending.op = "none"
  /\ \E password \in Passwords \cup { "" } :
       LET r == decryptPrivateKey(device, password)
       IN  /\ device' = r.device
           /\ last' = [ op |-> "decryptPrivateKey", pre |-> device, password |-> password,
                        threw |-> r.threw ]
  /\ UNCHANGED <<copayer, pending, keyDerivationOk, session, notificationsIntervalId, timers, lastNotificationId, deviceValidated>>

\* API.getKeys
GetKeys ==
  /\ pending.op = "none"
  /\ \E password \in Passwords \cup { "" } :
       LET r == getKeys(device, password)
       IN  last' = [ op |-> "getKeys", pre |-> device, password |-> password,
                     threw |-> r.threw, keys |-> r.keys ]
  /\ UNCHANGED <<device, copayer, pending, keyDerivationOk, session, notificationsIntervalId, timers, lastNotificationId, deviceValidated>>

\* Device.getDerivedXPrivKey, as API._signTxp and Device.addCopayer call it
GetDerivedXPrivKey ==
  /\ pending.op = "none"
  /\ \E password \in Passwords \cup { "" }, account \in 0..(MaxAccounts - 1) :
       LET r == getDerivedXPrivKey(device, account, password)
       IN  last' = [ op |-> "getDerivedXPrivKey", pre |-> device, password |-> password,
                     account |-> account, threw |-> r.threw, key |-> r.key ]
  /\ UNCHANGED <<device, copayer, pending, keyDerivationOk, session, notificationsIntervalId, timers, lastNotificationId, deviceValidated>>

\* API.clearMnemonic
ClearMnemonic ==
  /\ pending.op = "none"
  /\ device' = clearMnemonic(device)
  /\ last' = [ op |-> "clearMnemonic", pre |-> device ]
  /\ UNCHANGED <<copayer, pending, keyDerivationOk, session, notificationsIntervalId, timers, lastNotificationId, deviceValidated>>

\* API.export
Export ==
  /\ pending.op = "none"
  /\ \E opts \in ExportOpts :
       LET r == apiExport(device, copayer, opts)
       IN  /\ device' = r.device
           /\ last' = [ op |-> "export", pre |-> device, preCopayer |-> copayer, opts |-> opts,
                        threw |-> r.threw, output |-> r.output ]
  /\ UNCHANGED <<copayer, pending, keyDerivationOk, session, notificationsIntervalId, timers, lastNotificationId, deviceValidated>>

\* the text import is given: what export returned, or that text with its
\* mnemonicEncrypted member replaced by a text made under some password
BackupTexts(output) ==
  { output } \cup
  { [ json |-> [ output.json EXCEPT !.mnemonicEncrypted = sjclEncrypt(p, Words) ] ] :
      p \in { q \in Passwords : output.json.mnemonicEncrypted # "" } }

\* API.import of a backup of the last export
Import ==
  /\ pending.op = "none"
  /\ last.op = "export"
  /\ last.threw = ""
  /\ \E str \in BackupTexts(last.output) :
       LET r == apiImport(str, copayer)
       IN  /\ device' = r.device
           /\ copayer' = r.copayer
           /\ last' = [ op |-> "import", pre |-> last.pre, preCopayer |-> last.preCopayer,
                        opts |-> last.opts, asReturned |-> (str = last.output) ]
  /\ UNCHANGED <<pending, keyDerivationOk, session, notificationsIntervalId, timers, lastNotificationId, deviceValidated>>

\* txp.signatures: absent, an empty list, or signatures made elsewhere
TxpSignatures == { "", "empty", "supplied" }

\* API.signTxp: the signatures made with the account's key
signTxp(xpriv, walletId) == "sigs(" \o xpriv \o ";" \o walletId \o ")"

\* API.signTxProposal up to its request: [error, signatures]; error = "" when the
\* request is sent.  The two refusals look at !txp.signatures, the signing at
\* _.isEmpty(signatures).
signTxProposal(d, c, txpSignatures, password) ==
  IF txpSignatures = "" /\ ~canSign(d)
  THEN [ error |-> "MISSING_PRIVATE_KEY", signatures |-> "" ]
  ELSE IF txpSignatures = "" /\ isPrivKeyEncrypted(d) /\ password = ""
  THEN [ error |-> "ENCRYPTED_PRIVATE_KEY", signatures |-> "" ]
  ELSE IF txpSignatures \in { "", "empty" }
  THEN LET k == getDerivedXPrivKey(d, c.account, password)
       IN  IF k.threw # "" THEN [ error |-> k.threw, signatures |-> "" ]
           ELSE [ error |-> "", signatures |-> signTxp(k.key, c.walletId) ]
  ELSE [ error |-> "", signatures |-> txpSignatures ]

\* API.signTxProposal: refused at once, or the signatures sent
SignTxProposal ==
  /\ pending.op = "none"
  /\ isComplete(copayer)
  /\ \E txpSignatures \in TxpSignatures, password \in Passwords \cup { "" } :
       LET r == signTxProposal(device, copayer, txpSignatures, password)
       IN  IF r.error # ""
           THEN /\ last' = [ op |-> "signTxProposal", pre |-> device,
                             txpSignatures |-> txpSignatures, password |-> password,
                             sent |-> FALSE, signatures |-> "", outcome |-> r.error ]
                /\ pending' = pending
           ELSE /\ pending' = [ op |-> "signTxProposal", pre |-> device,
                                txpSignatures |-> txpSignatures, password |-> password,
                                signatures |-> r.signatures ]
                /\ last' = NoCall
  /\ UNCHANGED <<device, copayer, keyDerivationOk, session, notificationsIntervalId, timers, lastNotificationId, deviceValidated>>

\* the callback of API.signTxProposal
SignTxProposalDone ==
  /\ pending.op = "signTxProposal"
  /\ \E err \in Errs \cup { "" } :
       last' = [ op |-> "signTxProposal", pre |-> pending.pre,
                 txpSignatures |-> pending.txpSignatures, password |-> pending.password,
                 sent |-> TRUE, signatures |-> pending.signatures,
                 outcome |-> IF err # "" THEN "error" ELSE "ok" ]
  /\ pending' = NoCall
  /\ UNCHANGED <<device, copayer, keyDerivationOk, session, notificationsIntervalId, timers, lastNotificationId, deviceValidated>>

\* API.seedFromRandom / seedFromRandomWithMnemonic, then wallets created or recovered
InitDevice ==
  /\ \E d \in { DeviceCreate("obyte", "livenet"), DeviceCreateWithMnemonic("obyte", "livenet") },
        cs \in CopayerLists :
       /\ device = [ d EXCEPT !.copayers = Tail(cs) ]
       /\ copayer = cs[1]
  /\ pending = NoCall
  /\ last = NoCall
  /\ keyDerivationOk = "undefined"
  /\ NoSession

NextDevice ==
  \/ EncryptPrivateKey
  \/ DecryptPrivateKey
  \/ GetKeys
  \/ GetDerivedXPrivKey
  \/ ClearMnemonic
  \/ Export
  \/ Import
  \/ SignTxProposal
  \/ SignTxProposalDone

SpecDevice == InitDevice /\ [][NextDevice]_vars

-----------------------------------------------------------------------------
(* Key derivation: validateKeyDerivation and the calls it can refuse *)

\* whether the hardcoded self test has failed in this process, as the last call
\* recorded it
selfTestFailed(l) == "selfTestFailed" \in DOMAIN l /\ l.selfTestFailed

\* API.validateKeyDerivation: what the two self tests find is the platform's;
\* testHardcodedKeys runs only while _deviceValidated is unset and the caller
\* does not skip it, and _deviceValidated is set whatever it found
ValidateKeyDerivation ==
  /\ pending.op = "none"
  /\ \E skipDeviceValidation \in BOOLEAN, testHardcodedKeys \in BOOLEAN, testLiveKeys \in BOOLEAN :
       LET hardcodedRun == ~deviceValidated /\ ~skipDeviceValidation
           hardcodedOk == IF hardcodedRun THEN testHardcodedKeys ELSE TRUE
           liveOk == IF canSign(device) /\ ~isPrivKeyEncrypted(device) THEN testLiveKeys
                     ELSE TRUE
       IN  /\ deviceValidated' = (deviceValidated \/ hardcodedRun)
           /\ keyDerivationOk' = IF hardcodedOk /\ liveOk THEN "true" ELSE "false"
           /\ last' = [ op |-> "validateKeyDerivation",
                        skipDeviceValidation |-> skipDeviceValidation,
                        hardcodedRun |-> hardcodedRun, hardcodedOk |-> hardcodedOk,
                        liveOk |-> liveOk,
                        selfTestFailed |-> IF hardcodedRun THEN ~testHardcodedKeys
                                           ELSE selfTestFailed(last) ]
  /\ UNCHANGED <<device, copayer, pending, session, notificationsIntervalId, timers, lastNotificationId>>

\* API.createWallet refused by _checkKeyDerivation()
CreateWalletRefused ==
  /\ pending.op = "none"
  /\ ~checkKeyDerivation
  /\ last' = [ op |-> "createWallet", pre |-> copayer, outcome |-> "error" ]
  /\ UNCHANGED <<device, copayer, pending, keyDerivationOk, session, notificationsIntervalId, timers, lastNotificationId, deviceValidated>>

\* API.joinWallet refused by _checkKeyDerivation()
JoinWalletRefused ==
  /\ pending.op = "none"
  /\ ~checkKeyDerivation
  /\ \E dryRun \in BOOLEAN :
       last' = [ op |-> "joinWallet", pre |-> copayer, dryRun |-> dryRun, outcome |-> "error" ]
  /\ UNCHANGED <<device, copayer, pending, keyDerivationOk, session, notificationsIntervalId, timers, lastNotificationId, deviceValidated>>

\* API.createAddress refused by _checkKeyDerivation()
CreateAddressRefused ==
  /\ pending.op = "none"
  /\ isComplete(copayer)
  /\ ~checkKeyDerivation
  /\ last' = [ op |-> "createAddress", pre |-> copayer, doNotVerify |-> FALSE,
               answer |-> <<>>, outcome |-> "error", delivered |-> <<>> ]
  /\ UNCHANGED <<device, copayer, pending, keyDerivationOk, session, notificationsIntervalId, timers, lastNotificationId, deviceValidated>>

NextKeyDerivation ==
  \/ ValidateKeyDerivation
  \/ CreateWallet
  \/ CreateWalletRefused
  \/ CreateWalletDone
  \/ JoinWallet
  \/ JoinWalletRefused
  \/ JoinWalletDone
  \/ CreateAddress
  \/ CreateAddressRefused
  \/ CreateAddressDone

SpecKeyDerivation == Init /\ [][NextKeyDerivation]_vars

-----------------------------------------------------------------------------
(* The self tests across the clients of one process.  _deviceValidated is a  *)
(* variable of the module api.js, so every API instance of the process reads *)
(* and sets the same one; SpecSelfTest follows validateKeyDerivation on a    *)
(* client and on the clients made after it.                                  *)

\* new API(opts) seeded with seedFromRandom / seedFromRandomWithMnemonic: from
\* here on the client's variables are those of the new instance, while
\* _deviceValidated stays what the process has
OtherClient ==
  /\ pending.op = "none"
  /\ \E d \in { DeviceCreate("obyte", "livenet"), DeviceCreateWithMnemonic("obyte", "livenet") } :
       /\ device' = [ d EXCEPT !.copayers = <<>> ]
       /\ copayer' = RecoveredCopayer(0, FALSE)
  /\ keyDerivationOk' = "undefined"
  /\ session' = ""
  /\ notificationsIntervalId' = 0
  /\ timers' = {}
  /\ lastNotificationId' = 0
  /\ last' = [ op |-> "API", selfTestFailed |-> selfTestFailed(last) ]
  /\ UNCHANGED <<pending, deviceValidated>>

NextSelfTest ==
  \/ ValidateKeyDerivation
  \/ OtherClient

SpecSelfTest == InitDevice /\ [][NextSelfTest]_vars

-----------------------------------------------------------------------------
(* Importing backups.  SpecImport gives API.import the texts a caller can hold: *)
(* backups of devices with copayers, the backup of a device that has none yet  *)
(* (Device.create and toObj), and a text that is no JSON.  After the import of *)
(* an empty list API.copayer is no entry of device.copayers, so the actions    *)
(* that read copayers[0] as API.copayer take no part here; encryptPrivateKey  *)
(* and decryptPrivateKey, which act on the device's keys alone, do.            *)

\* JSON.stringify(d.toObj()) of the devices a backup can be of
Backups ==
  { JSONstringify(DeviceToObj([ d EXCEPT !.copayers = cs ])) :
      d \in { DeviceCreate("obyte", "livenet"), DeviceCreateWithMnemonic("obyte", "livenet") },
      cs \in CopayerLists \cup { <<>> } }

\* API.import(str): JSON.parse or Device.fromObj raising is answered with
\* INVALID_BACKUP; this.copayer is assigned only when the imported list has entries
ImportBackup ==
  /\ pending.op = "none"
  /\ \/ /\ last' = [ op |-> "import", threw |-> "INVALID_BACKUP", preCopayer |-> copayer,
                       imported |-> <<>> ]
        /\ UNCHANGED <<device, copayer>>
     \/ \E str \in Backups :
          LET r == apiImport(str, copayer)
          IN  /\ device' = r.device
              /\ copayer' = r.copayer
              /\ last' = [ op |-> "import", threw |-> "", preCopayer |-> copayer,
                           imported |-> DeviceFromObj(JSONparse(str)).copayers ]
  /\ UNCHANGED <<pending, keyDerivationOk, session, notificationsIntervalId, timers, lastNotificationId, deviceValidated>>

NextImport ==
  \/ ImportBackup
  \/ EncryptPrivateKey
  \/ DecryptPrivateKey

SpecImport == InitDevice /\ [][NextImport]_vars

-----------------------------------------------------------------------------
(* The accounts of a device.  SpecAccounts starts with the device as            *)
(* Device.create leaves it, no copayer yet, and adds copayers for the accounts  *)
(* the callers of addCopayer name (opts.account, the accounts the service       *)
(* lists in _import, or getNewAccount()).                                       *)

\* Device.addCopayer(account)
AddCopayer ==
  /\ pending.op = "none"
  /\ Len(AllCopayers(device, copayer)) < MaxCopayerList
  /\ \E account \in 0..MaxAccountIndex :
       LET all == AllCopayers(device, copayer)
           r   == addCopayer(all, device, account, "")
       IN  /\ device' = [ device EXCEPT !.copayers = IF r.copayers = <<>> THEN <<>>
                                                      ELSE Tail(r.copayers) ]
           /\ copayer' = IF r.copayers = <<>> THEN copayer ELSE r.copayers[1]
           /\ last' = [ op |-> "addCopayer", accounts |-> accountsOf(all), account |-> account,
                        added |-> r.added, result |-> 0 ]
  /\ UNCHANGED <<pending, keyDerivationOk, session, notificationsIntervalId, timers, lastNotificationId, deviceValidated>>

\* Device.getNewAccount()
GetNewAccount ==
  /\ pending.op = "none"
  /\ LET all == AllCopayers(device, copayer)
     IN  last' = [ op |-> "getNewAccount", accounts |-> accountsOf(all), account |-> 0,
                   added |-> FALSE, result |-> getNewAccount(all) ]
  /\ UNCHANGED <<device, copayer, pending, keyDerivationOk, session, notificationsIntervalId, timers, lastNotificationId, deviceValidated>>

\* Device.getCopayer(account)
GetCopayer ==
  /\ pending.op = "none"
  /\ \E account \in 0..MaxAccountIndex :
       LET all == AllCopayers(device, copayer)
           r   == getCopayer(all, account)
       IN  last' = [ op |-> "getCopayer", accounts |-> accountsOf(all), account |-> account,
                     returned |-> r.returned, copayer |-> r.copayer ]
  /\ UNCHANGED <<device, copayer, pending, keyDerivationOk, session, notificationsIntervalId, timers,
                 lastNotificationId, deviceValidated>>

InitAccounts ==
  /\ device = DeviceCreate("obyte", "livenet")
  /\ copayer = NoCopayer
  /\ pending = NoCall
  /\ last = NoCall
  /\ keyDerivationOk = "undefined"
  /\ NoSession

NextAccounts ==
  \/ AddCopayer
  \/ GetNewAccount
  \/ GetCopayer

SpecAccounts == InitAccounts /\ [][NextAccounts]_vars

-----------------------------------------------------------------------------
(* Utils.deriveAddress by itself.  SpecDerive starts with the function called  *)
(* on a wallet id, an address type, a ring, a path and m, and takes the one    *)
(* step of computing the result.                                               *)

MaxRing == 3                        \* entries of a public key ring

RingXPubKeys == { "xpubA", "xpubB", "xpubC" }

\* the rings deriveAddress is called with: any order, a key possibly repeated
Rings == SeqsUpTo({ [ xPubKey |-> x ] : x \in RingXPubKeys }, MaxRing)

SigningPathNames == << "r.0", "r.1", "r.2", "r.3", "r.4" >>

\* publicKeys, base64: the leaf key of every ring entry, in the ring's order
publicKeysOf(publicKeyRing, path) ==
  [ i \in 1..Len(publicKeyRing) |-> leafPubKey(publicKeyRing[i].xPubKey, path) ]

\* signingPaths of the SHARED case, an object keyed by the leaf key: an
\* assignment for a key that is there already replaces the path it had
sharedSigningPaths(publicKeys) ==
  [ k \in { publicKeys[i] : i \in 1..Len(publicKeys) } |->
      SigningPathNames[CHOOSE i \in 1..Len(publicKeys) :
                         /\ publicKeys[i] = k
                         /\ \A j \in 1..Len(publicKeys) : publicKeys[j] = k => j <= i] ]

\* what Utils.deriveAddress returns: [threw, address, set, signingPaths]; set is
\* the set of the SHARED definition (its members' keys)
deriveAddressResult(walletId, addressType, publicKeyRing, path, m) ==
  LET r    == deriveAddress(walletId, addressType, publicKeyRing, path, m)
      keys == publicKeysOf(publicKeyRing, path)
  IN  IF r.threw
      THEN [ threw |-> TRUE, address |-> "", set |-> <<>>, signingPaths |-> <<>> ]
      ELSE IF addressType = NORMAL
      THEN [ threw |-> FALSE, address |-> r.address, set |-> <<>>,
             signingPaths |-> [ k \in { keys[1] } |-> "r" ] ]
      ELSE IF addressType = SHARED
      THEN [ threw |-> FALSE, address |-> r.address, set |-> keys,
             signingPaths |-> sharedSigningPaths(keys) ]
      ELSE [ threw |-> FALSE, address |-> r.address, set |-> <<>>, signingPaths |-> <<>> ]

DeriveAddress ==
  /\ pending.op = "deriveAddress"
  /\ last' = [ op |-> "deriveAddress", addressType |-> pending.addressType,
               publicKeyRing |-> pending.publicKeyRing, path |-> pending.path, m |-> pending.m,
               result |-> deriveAddressResult("w1", pending.addressType, pending.publicKeyRing,
                                              pending.path, pending.m) ]
  /\ pending' = NoCall
  /\ UNCHANGED <<device, copayer, keyDerivationOk, session, notificationsIntervalId, timers, lastNotificationId, deviceValidated>>

InitDerive ==
  /\ device = TheDevice
  /\ copayer = WalletCopayer
  /\ last = NoCall
  /\ keyDerivationOk = "undefined"
  /\ NoSession
  /\ \E t \in ADDRESS_TYPES \cup { "", "p2sh" }, ring \in Rings,
        p \in Paths \cup { HardenedPath }, m \in 1..MaxN :
       pending = [ op |-> "deriveAddress", addressType |-> t, publicKeyRing |-> ring,
                   path |-> p, m |-> m ]

NextDerive == DeriveAddress

SpecDerive == InitDerive /\ [][NextDerive]_vars

-----------------------------------------------------------------------------
(* Requests through the login session, and the timer that polls for           *)
(* notifications.  A body is [code, data]: code is the error code of an error  *)
(* body, data whatever else it carries; both "" is no body.                    *)

MaxTimers == 2                      \* intervals alive at once

NoBody == [ code |-> "", data |-> "" ]

ECONNRESET == [ code |-> "", data |-> "{\"error\":\"read ECONNRESET\"}" ]

\* the codes lib/errors defines, as far as an answer here carries them
ErrorCodes == { "NOT_AUTHORIZED", "NOT_FOUND" }

\* what r.end's callback can be handed when the body of a 200 is `payload`:
\* res = FALSE is no response at all, status 0 a response without a status
Responses(payload) ==
  { [ res |-> FALSE, status |-> 0,   body |-> NoBody ],
    [ res |-> TRUE,  status |-> 200, body |-> [ code |-> "", data |-> payload ] ],
    [ res |-> TRUE,  status |-> 200, body |-> NoBody ],
    [ res |-> TRUE,  status |-> 200, body |-> ECONNRESET ],
    [ res |-> TRUE,  status |-> 404, body |-> NoBody ],
    [ res |-> TRUE,  status |-> 0,   body |-> NoBody ],
    [ res |-> TRUE,  status |-> 500, body |-> NoBody ],
    [ res |-> TRUE,  status |-> 401, body |-> [ code |-> "NOT_AUTHORIZED", data |-> "" ] ],
    [ res |-> TRUE,  status |-> 400, body |-> [ code |-> "BAD_REQUEST", data |-> "" ] ] }

\* API._parseError: the error an error body stands for
parseError(body) ==
  IF body.code # ""
  THEN IF body.code \in ErrorCodes THEN body.code ELSE "Error"
  ELSE "Error"

\* API._doRequest, from the response on: [err, body] as given to its callback
\* (err = "": none)
doRequest(r) ==
  IF ~r.res THEN [ err |-> "CONNECTION_ERROR", body |-> NoBody ]
  ELSE IF r.status # 200
  THEN IF r.status = 404 THEN [ err |-> "NOT_FOUND", body |-> NoBody ]
       ELSE IF r.status = 0 THEN [ err |-> "CONNECTION_ERROR", body |-> NoBody ]
       ELSE IF r.body = NoBody THEN [ err |-> "Error", body |-> NoBody ]
       ELSE [ err |-> parseError(r.body), body |-> NoBody ]
  ELSE IF r.body = ECONNRESET THEN [ err |-> "ECONNRESET_ERROR", body |-> NoBody ]
  ELSE [ err |-> "", body |-> r.body ]

\* the interval's callback on what _fetchLatestNotifications reports: the poll
\* ends the polling
pollDisposes(from, err) == from = "poll" /\ err \in { "NOT_FOUND", "NOT_AUTHORIZED" }

\* API._disposeNotifications
disposeNotifications ==
  IF notificationsIntervalId # 0
  THEN /\ timers' = timers \ { notificationsIntervalId }
       /\ notificationsIntervalId' = 0
  ELSE UNCHANGED <<notificationsIntervalId, timers>>

\* the callback given to _doRequestWithLogin is called with (err, body); called
\* by the timer, getNotifications hands err on to _fetchLatestNotifications and
\* to the interval's callback.  l is the record of the call so far, step what
\* is still to come of it ("": nothing).  The body "notifications" is one
\* notification, of another copayer, with the id 1: a poll keeps the id
deliver(l, err, body, step) ==
  /\ last' = [ l EXCEPT !.delivered = Append(@, [ err |-> err, body |-> body ]) ]
  /\ IF pollDisposes(l.from, err) THEN disposeNotifications
     ELSE UNCHANGED <<notificationsIntervalId, timers>>
  /\ lastNotificationId' = IF l.from = "poll" /\ err = "" /\ body.data = "notifications"
                           THEN 1 ELSE lastNotificationId
  /\ pending' = IF step = "" THEN NoCall ELSE [ pending EXCEPT !.step = step ]

\* API._initNotifications
InitNotifications ==
  /\ pending.op = "none"
  /\ Cardinality(timers) < MaxTimers
  /\ LET id == CHOOSE i \in 1..MaxTimers :
                 i \notin timers /\ \A j \in 1..MaxTimers : j \notin timers => i <= j
     IN  /\ notificationsIntervalId' = id
         /\ timers' = timers \cup { id }
  /\ last' = [ op |-> "initNotifications", pre |-> notificationsIntervalId ]
  /\ UNCHANGED <<device, copayer, pending, keyDerivationOk, session, lastNotificationId, deviceValidated>>

\* API._disposeNotifications, called by API.dispose
DisposeNotifications ==
  /\ pending.op = "none"
  /\ disposeNotifications
  /\ last' = [ op |-> "disposeNotifications", pre |-> notificationsIntervalId ]
  /\ UNCHANGED <<device, copayer, pending, keyDerivationOk, session, lastNotificationId, deviceValidated>>

\* API.setNotificationsInterval: _disposeNotifications, then _initNotifications
\* when the interval is not 0
SetNotificationsInterval ==
  /\ pending.op = "none"
  /\ \E notificationIntervalSeconds \in { 0, 5 } :
       LET left == timers \ { notificationsIntervalId }
           id   == CHOOSE i \in 1..MaxTimers :
                     i \notin left /\ \A j \in 1..MaxTimers : j \notin left => i <= j
       IN  /\ notificationIntervalSeconds > 0 => Cardinality(left) < MaxTimers
           /\ notificationsIntervalId' = IF notificationIntervalSeconds > 0 THEN id ELSE 0
           /\ timers' = IF notificationIntervalSeconds > 0 THEN left \cup { id } ELSE left
           /\ last' = [ op |-> "setNotificationsInterval", pre |-> notificationsIntervalId,
                        notificationIntervalSeconds |-> notificationIntervalSeconds ]
  /\ UNCHANGED <<device, copayer, pending, keyDerivationOk, session, lastNotificationId, deviceValidated>>

\* API.getNotifications up to _doRequestWithLogin's first step, called by the
\* client's user or, through _fetchLatestNotifications, by an interval
GetNotifications ==
  /\ pending.op = "none"
  /\ \E from \in { "caller", "poll" } :
       /\ from = "poll" => timers # {}
       /\ last' = [ op |-> "getNotifications", from |-> from, first |-> "none",
                    logins |-> 0, requests |-> 0, fault |-> "", delivered |-> <<>>,
                    replay |-> [ err |-> "none", body |-> NoBody ] ]
  /\ pending' = [ op |-> "getNotifications",
                  step |-> IF session # "" THEN "request" ELSE "login" ]
  /\ UNCHANGED <<device, copayer, keyDerivationOk, session, notificationsIntervalId, timers,
               lastNotificationId, deviceValidated>>

\* doLogin, from the answer to /v1/login on: the error it hands on, or the
\* session it stores
doLogin(r) ==
  LET o == doRequest(r)
  IN  IF o.err # "" THEN [ err |-> o.err, session |-> "" ]
      ELSE IF o.body = NoBody THEN [ err |-> "NOT_AUTHORIZED", session |-> "" ]
      ELSE [ err |-> "", session |-> o.body.data ]

\* doLogin's callback in the first step of the waterfall
LoginDone ==
  /\ pending.op = "getNotifications" /\ pending.step = "login"
  /\ \E r \in Responses("s1") :
       LET o == doLogin(r)
           l == [ last EXCEPT !.logins = @ + 1, !.fault = o.err ]
       IN  IF o.err # ""
           THEN /\ deliver(l, o.err, NoBody, "")
                /\ UNCHANGED session
           ELSE /\ session' = o.session
                /\ last' = l
                /\ pending' = [ pending EXCEPT !.step = "request" ]
                /\ UNCHANGED <<notificationsIntervalId, timers, lastNotificationId, deviceValidated>>
  /\ UNCHANGED <<device, copayer, keyDerivationOk, deviceValidated>>

\* the callback of the request in the second step: on NOT_AUTHORIZED doLogin
\* is started, and whatever err is, next(null, body, header) is called
RequestDone ==
  /\ pending.op = "getNotifications" /\ pending.step = "request"
  /\ \E r \in Responses("notifications") :
       LET o == doRequest(r)
           l == [ last EXCEPT !.requests = @ + 1, !.first = o.err, !.fault = o.err ]
       IN  deliver(l, "", o.body, IF o.err = "NOT_AUTHORIZED" THEN "relogin" ELSE "")
  /\ UNCHANGED <<device, copayer, keyDerivationOk, session, deviceValidated>>

\* doLogin's callback after NOT_AUTHORIZED: next is called a second time with
\* the error, or the request is sent again
ReloginDone ==
  /\ pending.op = "getNotifications" /\ pending.step = "relogin"
  /\ \E r \in Responses("s2") :
       LET o == doLogin(r)
           l == [ last EXCEPT !.logins = @ + 1, !.fault = o.err ]
       IN  IF o.err # ""
           THEN /\ deliver(l, o.err, NoBody, "")
                /\ UNCHANGED session
           ELSE /\ session' = o.session
                /\ last' = l
                /\ pending' = [ pending EXCEPT !.step = "replay" ]
                /\ UNCHANGED <<notificationsIntervalId, timers, lastNotificationId, deviceValidated>>
  /\ UNCHANGED <<device, copayer, keyDerivationOk, deviceValidated>>

\* the callback of the request sent again: it is next itself
ReplayDone ==
  /\ pending.op = "getNotifications" /\ pending.step = "replay"
  /\ \E r \in Responses("notifications") :
       LET o == doRequest(r)
           l == [ last EXCEPT !.requests = @ + 1, !.fault = o.err,
                              !.replay = [ err |-> o.err, body |-> o.body ] ]
       IN  deliver(l, o.err, o.body, "")
  /\ UNCHANGED <<device, copayer, keyDerivationOk, session, deviceValidated>>

InitRequest ==
  /\ device = TheDevice
  /\ copayer = WalletCopayer
  /\ pending = NoCall
  /\ last = NoCall
  /\ keyDerivationOk = "undefined"
  /\ NoSession

NextRequest ==
  \/ InitNotifications
  \/ DisposeNotifications
  \/ SetNotificationsInterval
  \/ GetNotifications
  \/ LoginDone
  \/ RequestDone
  \/ ReloginDone
  \/ ReplayDone

SpecRequest == InitRequest /\ [][NextRequest]_vars

-----------------------------------------------------------------------------
(* Polls for notifications that overlap.  In SpecPoll the interval is set and  *)
(* the client has its session; pending holds the polls in flight (each the     *)
(* lastNotificationId it sent) and the notifications the service has (each the *)
(* copayer that made it, its id is its place); last counts, for every id, the  *)
(* 'notification' events emitted.                                              *)

MaxNotifications == 2               \* notifications the service comes to have
MaxPolls == 2                       \* polls in flight at once
MaxEmitted == 3                     \* events counted for one notification

\* the ids of `created` that are newer than `since` and, with includeOwn
\* false, not made by this copayer: the service's answer as getNotifications
\* filters it, in the order of the ids
newerThan(created, since, includeOwn) ==
  { i \in 1..Len(created) : i > since /\ (includeOwn \/ created[i] # "me") }

maxOf(S) == CHOOSE i \in S : \A j \in S : j <= i

\* the service comes to have one more notification
ServiceNotifies ==
  /\ pending.op = "poll"
  /\ Len(pending.created) < MaxNotifications
  /\ \E creator \in { "me", "other" } :
       pending' = [ pending EXCEPT !.created = Append(@, creator) ]
  /\ UNCHANGED <<device, copayer, last, keyDerivationOk, session, notificationsIntervalId, timers,
                 lastNotificationId, deviceValidated>>

\* the interval fires: API._fetchLatestNotifications up to the request of
\* getNotifications, which carries lastNotificationId as it is now
FetchLatestNotifications ==
  /\ pending.op = "poll"
  /\ timers # {}
  /\ Len(pending.polls) < MaxPolls
  /\ pending' = [ pending EXCEPT !.polls = Append(@, lastNotificationId) ]
  /\ UNCHANGED <<device, copayer, last, keyDerivationOk, session, notificationsIntervalId, timers,
                 lastNotificationId, deviceValidated>>

\* the callback of getNotifications in _fetchLatestNotifications, for any of
\* the polls in flight: the service answered with what it had that was newer
\* than the id sent, or the request failed
FetchLatestNotificationsDone ==
  /\ pending.op = "poll"
  /\ \E i \in 1..Len(pending.polls), failed \in BOOLEAN :
       LET notifications == IF failed THEN {}
                            ELSE newerThan(pending.created, pending.polls[i], pending.includeOwn)
       IN  /\ \A n \in notifications : last.emitted[n] < MaxEmitted
           /\ lastNotificationId' = IF notifications # {} THEN maxOf(notifications)
                                    ELSE lastNotificationId
           /\ last' = [ last EXCEPT !.emitted =
                          [ n \in DOMAIN @ |-> IF n \in notifications THEN @[n] + 1 ELSE @[n] ] ]
           /\ pending' = [ pending EXCEPT !.polls = removeAt(@, i) ]
  /\ UNCHANGED <<device, copayer, keyDerivationOk, session, notificationsIntervalId, timers,
                 deviceValidated>>

InitPoll ==
  /\ device = TheDevice
  /\ copayer = WalletCopayer
  /\ keyDerivationOk = "undefined"
  /\ session = "s1"
  /\ notificationsIntervalId = 1
  /\ timers = { 1 }
  /\ lastNotificationId = 0
  /\ deviceValidated = FALSE
  /\ \E includeOwn \in BOOLEAN :
       pending = [ op |-> "poll", polls |-> <<>>, created |-> <<>>, includeOwn |-> includeOwn ]
  /\ last = [ op |-> "poll", emitted |-> [ n \in 1..MaxNotifications |-> 0 ] ]

NextPoll ==
  \/ ServiceNotifies
  \/ FetchLatestNotifications
  \/ FetchLatestNotificationsDone

SpecPoll == InitPoll /\ [][NextPoll]_vars

-----------------------------------------------------------------------------
(* Device._expand and the constructors of a device.  SpecExpand makes devices  *)
(* with every constructor and with fromObj, and runs _expand on them again.    *)
(* The keys of the device made from RootXPrivKey keep their short names.       *)

Networks == { "livenet", "testnet" }

XPrivKeys == { RootXPrivKey, "tprv" }

\* the extended keys whose first character is 't'
TestnetKeys == { "tprv", "tpub(tprv)" }

\* Device._getNetworkFromExtendedKey
getNetworkFromExtendedKey(xKey) == IF xKey \in TestnetKeys THEN "testnet" ELSE "livenet"

\* new Bitcore.HDPrivateKey(network), m.toHDPrivateKey(passphrase, network): a key
\* of the network asked for
HDPrivateKeyFor(network) == IF network = "testnet" THEN "tprv" ELSE RootXPrivKey

\* xPrivKey.hdPublicKey
toHDPublicKey(xPrivKey) ==
  (IF xPrivKey \in TestnetKeys THEN "tpub(" ELSE "xpub(") \o xPrivKey \o ")"

\* deriveFn(Constants.PATHS.REQUEST_KEY).privateKey
requestDerivation(xPrivKey) ==
  IF xPrivKey = RootXPrivKey THEN "reqPrivA" ELSE "reqPriv(" \o xPrivKey \o ")"

\* new Bitcore.PrivateKey(this._hashFromEntropy('reqPrivKey', 32))
privKeyFromEntropy(entropySource) == "reqPriv(" \o entropySource \o ")"

\* privKey.toPublicKey() of a request key
requestPubKeyOf(privKey) == IF privKey = "reqPrivA" THEN "reqA" ELSE toPublicKey(privKey)

\* this._hashFromEntropy('personalKey', 16)
personalKeyFromEntropy(entropySource) ==
  IF entropySource = "entropy(reqPrivA)" THEN "personal(dev)"
  ELSE "personal(" \o entropySource \o ")"

pubToDeviceId(devicePubKey) ==
  IF devicePubKey = "devpub(" \o RootXPrivKey \o ")" THEN "0DEV(xpubA)"
  ELSE "0DEV(" \o devicePubKey \o ")"

\* the fields _expand derives
DerivedFIELDS ==
  { "xPubKey", "requestPrivKey", "requestPubKey", "entropySource", "personalEncryptingKey",
    "devicePubKey", "deviceId" }

\* Device.prototype._expand: [threw, device]; both checkState come before the
\* first assignment
expand(x) ==
  LET key     == IF x.xPrivKey # "" THEN x.xPrivKey ELSE x.xPubKey
      network == getNetworkFromExtendedKey(key)
      x1 == [ x EXCEPT !.network = network ]
      x2 == IF x.xPrivKey # ""
            THEN [ x1 EXCEPT !.xPubKey = toHDPublicKey(x.xPrivKey),
                             !.devicePubKey = "devpub(" \o x.xPrivKey \o ")" ]
            ELSE x1
      x3 == IF x.entropySource # ""
            THEN [ x2 EXCEPT !.requestPrivKey = privKeyFromEntropy(x.entropySource),
                             !.requestPubKey = requestPubKeyOf(privKeyFromEntropy(x.entropySource)) ]
            ELSE [ x2 EXCEPT !.requestPrivKey = requestDerivation(x.xPrivKey),
                             !.requestPubKey = requestPubKeyOf(requestDerivation(x.xPrivKey)),
                             !.entropySource = "entropy(" \o requestDerivation(x.xPrivKey) \o ")" ]
  IN  IF ~(x.xPrivKey # "" \/ (x.xPubKey # "" /\ x.devicePubKey # "" /\ x.entropySource # ""))
      THEN [ threw |-> TRUE, device |-> x ]
      ELSE IF x.network # "" /\ x.network # network
      THEN [ threw |-> TRUE, device |-> x ]
      ELSE [ threw |-> FALSE,
             device |-> [ x3 EXCEPT !.personalEncryptingKey = personalKeyFromEntropy(x3.entropySource),
                                    !.deviceId = pubToDeviceId(x3.devicePubKey) ] ]

\* a constructor ends with x._expand(): the client has the device when it did
\* not raise.  [device, last] after the constructor `op` has made x
constructed(d, op, x) ==
  LET r == expand(x)
  IN  [ device |-> IF r.threw THEN d ELSE r.device,
        last   |-> [ op |-> op, pre |-> x, threw |-> r.threw ] ]

\* Device.create
Create ==
  /\ pending.op = "none"
  /\ \E network \in Networks :
       LET r == constructed(device, "create",
                            [ NewDevice EXCEPT !.network = network,
                                               !.xPrivKey = HDPrivateKeyFor(network) ])
       IN  device' = r.device /\ last' = r.last
  /\ UNCHANGED <<copayer, pending, keyDerivationOk, session, notificationsIntervalId, timers, lastNotificationId, deviceValidated>>

\* Device.createWithMnemonic
CreateWithMnemonic ==
  /\ pending.op = "none"
  /\ \E network \in Networks, passphrase \in { "", "pass" } :
       LET r == constructed(device, "createWithMnemonic",
                            [ NewDevice EXCEPT !.network = network,
                                               !.xPrivKey = HDPrivateKeyFor(network),
                                               !.mnemonic = Words,
                                               !.mnemonicHasPassphrase =
                                                  IF passphrase # "" THEN "true" ELSE "false" ])
       IN  device' = r.device /\ last' = r.last
  /\ UNCHANGED <<copayer, pending, keyDerivationOk, session, notificationsIntervalId, timers, lastNotificationId, deviceValidated>>

\* Device.fromExtendedPrivateKey
FromExtendedPrivateKey ==
  /\ pending.op = "none"
  /\ \E xPrivKey \in XPrivKeys :
       LET r == constructed(device, "fromExtendedPrivateKey",
                            [ NewDevice EXCEPT !.xPrivKey = xPrivKey ])
       IN  device' = r.device /\ last' = r.last
  /\ UNCHANGED <<copayer, pending, keyDerivationOk, session, notificationsIntervalId, timers, lastNotificationId, deviceValidated>>

\* Device.fromMnemonic
FromMnemonic ==
  /\ pending.op = "none"
  /\ \E network \in Networks :
       LET r == constructed(device, "fromMnemonic",
                            [ NewDevice EXCEPT !.network = network,
                                               !.xPrivKey = HDPrivateKeyFor(network),
                                               !.mnemonic = Words,
                                               !.mnemonicHasPassphrase = "false" ])
       IN  device' = r.device /\ last' = r.last
  /\ UNCHANGED <<copayer, pending, keyDerivationOk, session, notificationsIntervalId, timers, lastNotificationId, deviceValidated>>

\* Device.fromExtendedPublicKey
FromExtendedPublicKey ==
  /\ pending.op = "none"
  /\ \E network \in Networks, xPrivKey \in XPrivKeys :
       LET r == constructed(device, "fromExtendedPublicKey",
                            [ NewDevice EXCEPT !.network = network,
                                               !.xPubKey = toHDPublicKey(xPrivKey),
                                               !.entropySource = "entropy2(ee)",
                                               !.devicePubKey = "devpub(" \o xPrivKey \o ")" ])
       IN  device' = r.device /\ last' = r.last
  /\ UNCHANGED <<copayer, pending, keyDerivationOk, session, notificationsIntervalId, timers, lastNotificationId, deviceValidated>>

\* the objects Device.fromObj is given: what toObj made of the device, with the
\* member network as it is, absent, or naming a network
ObjectsOf(d) ==
  { [ DeviceToObj(d) EXCEPT !.network = n ] : n \in { d.network, "" } \cup Networks }

\* Device.fromObj
FromObj ==
  /\ pending.op = "none"
  /\ \E obj \in ObjectsOf(device) :
       /\ device' = DeviceFromObj(obj)
       /\ last' = [ op |-> "fromObj", pre |-> obj, threw |-> FALSE ]
  /\ UNCHANGED <<copayer, pending, keyDerivationOk, session, notificationsIntervalId, timers, lastNotificationId, deviceValidated>>

\* _expand run on the device the client has
Expand ==
  /\ pending.op = "none"
  /\ LET r == expand(device)
     IN  /\ device' = r.device
         /\ last' = [ op |-> "expand", pre |-> device, threw |-> r.threw ]
  /\ UNCHANGED <<copayer, pending, keyDerivationOk, session, notificationsIntervalId, timers, lastNotificationId, deviceValidated>>

InitExpand ==
  /\ device = TheDevice
  /\ copayer = fromExtendedPublicKey(TheDevice.deviceId, MyXPubKey, 0)
  /\ pending = NoCall
  /\ last = NoCall
  /\ keyDerivationOk = "undefined"
  /\ NoSession

NextExpand ==
  \/ Create
  \/ CreateWithMnemonic
  \/ FromExtendedPrivateKey
  \/ FromMnemonic
  \/ FromExtendedPublicKey
  \/ FromObj
  \/ Expand

SpecExpand == InitExpand /\ [][NextExpand]_vars

-----------------------------------------------------------------------------
(* Properties: proposals (SpecProposal) *)

Count(seq, x) == Cardinality({ i \in 1..Len(seq) : seq[i] = x })

\* a payment proposal, not send_all, that checkProposalCreation accepted
AcceptedPayment ==
  /\ last.op \in { "createTxProposal", "checkProposalCreation" }
  /\ last.verdict = "true"
  /\ last.args.app = "payment"
  /\ ~last.args.params.send_all

\* C1: an accepted payment proposal (not send_all) holds every submitted output, each
\* matched to a service output of its own with the same address and amount: no output
\* value is submitted more often than the service's proposal holds it.
C1_EverySubmittedOutputMatchedDistinctly ==
  AcceptedPayment =>
    \A o \in Range(last.args.params.outputs) :
      Count(last.args.params.outputs, o) <= Count(last.txp.params.outputs, o)

\* C2 as stated: when the arguments name a change address the proposal's equals it and
\* exactly one service output is left unmatched; when the arguments name none, no
\* service output is left unmatched.
C2_ChangeKeyedOnArguments ==
  AcceptedPayment =>
    LET left == Len(last.txp.params.outputs) - Len(last.args.params.outputs)
    IN  /\ last.args.params.change_address # ""
             => last.txp.params.change_address = last.args.params.change_address /\ left = 1
        /\ last.args.params.change_address = "" => left = 0

\* C2, amended: when the arguments name a change address the proposal's equals it; the
\* proposal holds exactly one output more than was submitted when the PROPOSAL names a
\* change address, and exactly as many when it names none.
C2_ChangeKeyedOnProposal ==
  AcceptedPayment =>
    LET left == Len(last.txp.params.outputs) - Len(last.args.params.outputs)
    IN  /\ last.args.params.change_address # ""
             => last.txp.params.change_address = last.args.params.change_address
        /\ last.txp.params.change_address # "" => left = 1
        /\ last.txp.params.change_address = "" => left = 0

\* an accepted payment whose arguments named the change address, with its one output left
C2_Witness ==
  /\ AcceptedPayment
  /\ last.args.params.change_address # ""
  /\ Len(last.txp.params.outputs) = Len(last.args.params.outputs) + 1

\* C3: whenever checkProposalCreation accepts (send_all included), the submitted message
\* could be decrypted with the key and the proposal's message equals the decryption.
C3_AcceptedMessageIsDecryptedSubmission ==
  (last.op \in { "createTxProposal", "checkProposalCreation" } /\ last.verdict = "true") =>
    LET d == decryptMessage(last.args.message, last.encryptingKey)
    IN  ~d.threw /\ last.txp.message = d.value

\* C6: createTxProposal hands the proposal to the caller only if checkProposalCreation
\* accepted it; in every other case the callback gets SERVER_COMPROMISED and no proposal.
C6_ProposalOnlyIfAcceptedElseCompromised ==
  (last.op = "createTxProposal" /\ last.outcome # "error") =>
    /\ last.delivered => last.verdict = "true"
    /\ last.verdict # "true" => last.outcome = "SERVER_COMPROMISED" /\ ~last.delivered

\* the service's outputs are the submitted ones in some order, with `extra` more
permutedWithExtra(argsOutputs, txpOutputs, extra) ==
  /\ Len(txpOutputs) = Len(argsOutputs) + extra
  /\ \A o \in Range(argsOutputs) : Count(argsOutputs, o) <= Count(txpOutputs, o)

\* the answer to createTxProposal of a service that kept to the request: the
\* change address, message and custom data submitted, and the submitted
\* outputs in any order, with the change output when the proposal has a
\* change address
HonestPaymentAnswer ==
  /\ last.op = "createTxProposal"
  /\ last.outcome # "error"
  /\ last.args.app = "payment"
  /\ ~last.args.params.send_all
  /\ last.txp.params.change_address = last.args.params.change_address
  /\ last.txp.encryptedMessage = last.args.message
  /\ last.txp.customData = last.args.customData
  /\ permutedWithExtra(last.args.params.outputs, last.txp.params.outputs,
                       IF last.txp.params.change_address # "" THEN 1 ELSE 0)

\* C36: the verdict of checkProposalCreation does not depend on the order of
\* the service's outputs: an answer that holds the submitted outputs in any
\* order (and the change output when one is expected) is accepted.
C36_OutputOrderDoesNotMatter ==
  HonestPaymentAnswer => last.verdict = "true"

-----------------------------------------------------------------------------
(* Properties: wallet and addresses (Spec) *)

VerifiedAddressCall ==
  /\ last.op \in { "createAddress", "getMainAddresses" }
  /\ ~last.doNotVerify
  /\ last.outcome # "error"

\* C4: an address that passed checkAddress equals the address derived at its path from
\* the copayer's own walletId, addressType, publicKeyRing and m.
C4_AcceptedAddressIsOwnDerivation ==
  VerifiedAddressCall =>
    \A i \in 1..Len(last.delivered) :
      LET own == deriveAddress(copayer.walletId, copayer.addressType, copayer.publicKeyRing,
                               last.delivered[i].path, copayer.m)
      IN  ~own.threw /\ last.delivered[i].address = own.address

\* C5: a verifying createAddress / getMainAddresses hands addresses over only if every
\* answered address passes checkAddress; if any answered address fails it, the callback
\* gets SERVER_COMPROMISED and no address.
C5_AddressesOnlyIfAllPassElseCompromised ==
  VerifiedAddressCall =>
    /\ last.delivered # <<>> =>
         \A i \in 1..Len(last.answer) : checkAddress(copayer, last.answer[i]) = "true"
    /\ (\E i \in 1..Len(last.answer) : checkAddress(copayer, last.answer[i]) = "false")
         => last.outcome = "SERVER_COMPROMISED" /\ last.delivered = <<>>

CheckedCopayers == last.op = "openWallet" /\ last.checked

\* C7: checkCopayers returns false for any list in which two entries share an xPubKey.
C7_RepeatedXPubKeyRejected ==
  (CheckedCopayers /\ \E i, j \in 1..Len(last.copayers) :
                         i # j /\ last.copayers[i].xPubKey = last.copayers[j].xPubKey)
    => ~last.verdict

\* C8: a list checkCopayers accepted has exactly n entries; every entry has a name (or
\* encryptedName), an xPubKey, a requestPubKey and a signature, the signature being the
\* wallet key's over (name, xPubKey, requestPubKey); the copayer's own xPubKey is listed.
C8_AcceptedCopayersComplete ==
  (CheckedCopayers /\ last.verdict) =>
    /\ Len(last.copayers) = last.subject.n
    /\ \A i \in 1..Len(last.copayers) :
         LET e    == last.copayers[i]
             name == IF e.encryptedName # "" THEN e.encryptedName ELSE e.name
         IN  /\ name # "" /\ e.xPubKey # "" /\ e.requestPubKey # "" /\ e.signature # ""
             /\ e.signature = signMessage(name \o "|" \o e.xPubKey \o "|" \o e.requestPubKey,
                                          last.subject.walletPrivKey)
    /\ \E i \in 1..Len(last.copayers) : last.copayers[i].xPubKey = last.subject.xPubKey

\* a two-copayer list was accepted
C8_Witness == CheckedCopayers /\ last.verdict /\ Len(last.copayers) = 2

\* C9: openWallet on an incomplete copayer that holds the wallet key: a list failing
\* checkCopayers ends the call with SERVER_COMPROMISED, the publicKeyRing is what it was
\* and walletCompleted is not emitted; walletCompleted is emitted only with the verified
\* list installed as the ring.
C9_FailedListLeavesRingAndEmitsNothing ==
  (last.op = "openWallet" /\ last.pre.walletPrivKey # "" /\ ~isComplete(last.pre)) =>
    /\ (last.checked /\ ~last.verdict) =>
         /\ last.outcome = "SERVER_COMPROMISED"
         /\ copayer.publicKeyRing = last.pre.publicKeyRing
         /\ ~last.emitted
    /\ last.emitted =>
         /\ last.checked /\ last.verdict
         /\ copayer.publicKeyRing = extractPublicKeyRing(last.copayers)

Identity(c) ==
  << c.walletId, c.walletName, c.m, c.n, c.addressType, c.copayerName, c.walletPrivKey,
     c.publicKeyRing >>

\* C10: a call that ends with SERVER_COMPROMISED leaves the identity state (walletId,
\* walletName, m, n, addressType, copayerName, walletPrivKey, publicKeyRing) as it was
\* before the call.
C10_CompromisedCallLeavesIdentity ==
  (last.op # "none" /\ last.outcome = "SERVER_COMPROMISED") => Identity(copayer) = Identity(last.pre)

-----------------------------------------------------------------------------
(* Properties: the keys of the device (SpecDevice) *)

\* C11: after encryptPrivateKey has returned the device holds no plaintext xPrivKey
\* and no plaintext mnemonic; and in every state, a device for which
\* isPrivKeyEncrypted() holds has neither.
C11_EncryptedDeviceHoldsNoPlaintext ==
  /\ (last.op = "encryptPrivateKey" /\ last.threw = "")
       => isPrivKeyEncrypted(device) /\ device.xPrivKey = "" /\ device.mnemonic = ""
  /\ isPrivKeyEncrypted(device) => device.xPrivKey = "" /\ device.mnemonic = ""

\* a device with a mnemonic has just been encrypted
C11_Witness ==
  /\ last.op = "encryptPrivateKey"
  /\ last.threw = ""
  /\ last.pre.xPrivKey # ""
  /\ last.pre.mnemonic # ""
  /\ device.mnemonicEncrypted # ""

\* C12: encryptPrivateKey(pw) followed by decryptPrivateKey(pw) gives back the very
\* device: the original xPrivKey and mnemonic, not encrypted, no encrypted copies.
\* Stated for every device the model reaches that encryptPrivateKey accepts, and
\* for every decryption that succeeded: encrypting again leads back to where the
\* decryption started.
C12_EncryptThenDecryptRestores ==
  /\ \A pw \in Passwords :
       LET e == encryptPrivateKey(device, pw)
           r == decryptPrivateKey(e.device, pw)
       IN  e.threw = ""
             => /\ r.threw = ""
                /\ r.device = device
                /\ r.device.xPrivKey = device.xPrivKey
                /\ r.device.mnemonic = device.mnemonic
                /\ ~isPrivKeyEncrypted(r.device)
                /\ r.device.xPrivKeyEncrypted = ""
                /\ r.device.mnemonicEncrypted = ""
  /\ (last.op = "decryptPrivateKey" /\ last.threw = "" /\ isPrivKeyEncrypted(last.pre))
       => /\ encryptPrivateKey(device, last.password).device = last.pre
          /\ device.xPrivKey = RootXPrivKey
          /\ device.xPrivKeyEncrypted = ""
          /\ device.mnemonicEncrypted = ""
          /\ last.pre.mnemonicEncrypted # "" => device.mnemonic = Words

\* a device with a mnemonic was encrypted and has been decrypted again
C12_Witness ==
  /\ last.op = "decryptPrivateKey"
  /\ last.threw = ""
  /\ device.xPrivKey = RootXPrivKey
  /\ device.mnemonic = Words

\* the password decrypts every encrypted field of the device
decryptsAll(d, password) ==
  /\ ~sjclDecrypt(password, d.xPrivKeyEncrypted).threw
  /\ d.mnemonicEncrypted # "" => ~sjclDecrypt(password, d.mnemonicEncrypted).threw

\* C13: decryptPrivateKey with a password under which the decryption of some
\* encrypted field fails throws 'Could not decrypt' and leaves the device exactly
\* as it was.
C13_FailedDecryptLeavesDevice ==
  (/\ last.op = "decryptPrivateKey"
   /\ last.pre.xPrivKeyEncrypted # ""
   /\ ~decryptsAll(last.pre, last.password))
    => last.threw = "Could not decrypt" /\ device = last.pre

\* C14: encryptPrivateKey is accepted only on a device that is not encrypted and
\* has its key, decryptPrivateKey only on an encrypted one; called in another
\* state they throw and leave the device as it was.
C14_CallsOnlyInTheirState ==
  /\ last.op = "encryptPrivateKey"
       => /\ last.threw = "" => ~isPrivKeyEncrypted(last.pre) /\ last.pre.xPrivKey # ""
          /\ (isPrivKeyEncrypted(last.pre) \/ last.pre.xPrivKey = "")
               => last.threw # "" /\ device = last.pre
  /\ last.op = "decryptPrivateKey"
       => /\ last.threw = "" => isPrivKeyEncrypted(last.pre)
          /\ ~isPrivKeyEncrypted(last.pre) => last.threw # "" /\ device = last.pre

\* what identifies the device and its wallets
PublicPart(d) ==
  [ xPubKey |-> d.xPubKey, requestPubKey |-> d.requestPubKey, devicePubKey |-> d.devicePubKey,
    deviceId |-> d.deviceId, personalEncryptingKey |-> d.personalEncryptingKey,
    copayers |-> d.copayers ]

\* C15: no call of encryptPrivateKey or decryptPrivateKey, accepted or refused,
\* changes xPubKey, requestPubKey, devicePubKey, deviceId, personalEncryptingKey
\* or the copayers.
C15_EncryptionLeavesIdentity ==
  [][ last'.op \in { "encryptPrivateKey", "decryptPrivateKey" }
        => PublicPart(device') = PublicPart(device) /\ copayer' = copayer ]_vars

\* the device went through an encryption and a decryption
C15_Witness ==
  /\ last.op = "decryptPrivateKey"
  /\ last.threw = ""
  /\ PublicPart(device) = PublicPart(last.pre)
  /\ device.xPubKey # ""

\* C16: on an encrypted device getKeys(password) and getDerivedXPrivKey(account,
\* password), given the password of the device, return what they return once the
\* device is decrypted; and neither ever changes the device.
C16_KeysReadWithoutDecrypting ==
  /\ last.op \in { "getKeys", "getDerivedXPrivKey" } => device = last.pre
  /\ (/\ last.op = "getKeys"
      /\ isPrivKeyEncrypted(last.pre)
      /\ last.password # ""
      /\ decryptsAll(last.pre, last.password))
       => LET dec == decryptPrivateKey(last.pre, last.password).device
          IN  /\ last.threw = ""
              /\ last.keys = [ xPrivKey |-> dec.xPrivKey, mnemonic |-> dec.mnemonic ]
              /\ last.keys.xPrivKey = RootXPrivKey
  /\ (/\ last.op = "getDerivedXPrivKey"
      /\ isPrivKeyEncrypted(last.pre)
      /\ last.password # ""
      /\ decryptsAll(last.pre, last.password))
       => LET dec == decryptPrivateKey(last.pre, last.password).device
          IN  /\ last.threw = ""
              /\ last.key = deriveAccount(dec.xPrivKey, last.account)
              /\ last.key = deriveAccount(RootXPrivKey, last.account)

\* the keys of an encrypted device with a mnemonic have been read
C16_Witness ==
  /\ last.op = "getKeys"
  /\ isPrivKeyEncrypted(last.pre)
  /\ last.threw = ""
  /\ last.keys.mnemonic = Words
  /\ isPrivKeyEncrypted(device)

\* C17: signTxProposal on a proposal that brings no signatures made elsewhere
\* (txp.signatures absent or empty) sends no request unless the client can sign:
\* MISSING_PRIVATE_KEY when the device cannot sign, ENCRYPTED_PRIVATE_KEY when the
\* key is encrypted and no password is given, 'Could not decrypt' when the password
\* is wrong; with the password of the device the signatures of the account's key
\* are sent and the device is still encrypted.
C17_SignsOnlyWhenAble ==
  /\ (pending.op = "signTxProposal" /\ pending.txpSignatures # "supplied")
       => canSign(pending.pre)
  /\ (last.op = "signTxProposal" /\ last.txpSignatures # "supplied")
       => /\ ~canSign(last.pre) => ~last.sent /\ last.outcome = "MISSING_PRIVATE_KEY"
          /\ (isPrivKeyEncrypted(last.pre) /\ last.password = "")
               => ~last.sent /\ last.outcome = "ENCRYPTED_PRIVATE_KEY"
          /\ (isPrivKeyEncrypted(last.pre) /\ last.password # ""
                /\ ~decryptsAll(last.pre, last.password))
               => ~last.sent /\ last.outcome = "Could not decrypt"
          /\ (isPrivKeyEncrypted(last.pre) /\ last.password # ""
                /\ decryptsAll(last.pre, last.password))
               => /\ last.sent
                  /\ last.signatures =
                       signTxp(deriveAccount(RootXPrivKey, copayer.account), copayer.walletId)
                  /\ isPrivKeyEncrypted(device)

\* C19: importing the text export() returned gives a device and copayers whose
\* persisted fields all equal those of the exporting device.
C19_ImportRestoresEveryField ==
  (last.op = "import" /\ last.asReturned /\ ~last.opts.noSign /\ last.opts.password = "")
    => DeviceObject(device, copayer) = DeviceObject(last.pre, last.preCopayer)

\* C19, amended: importing the text export() returned gives a device whose
\* persisted fields equal those of the exporting device, and as many copayers,
\* each with the fields of the original; except that a copayer without an
\* addressType (one that has no wallet yet) comes back with addressType 'normal'.
C19_ImportRestoresButAddressType ==
  (last.op = "import" /\ last.asReturned /\ ~last.opts.noSign /\ last.opts.password = "")
    => LET imp  == DeviceObject(device, copayer)
           orig == DeviceObject(last.pre, last.preCopayer)
       IN  /\ \A k \in DeviceFIELDS \ { "copayers" } : imp[k] = orig[k]
           /\ Len(imp.copayers) = Len(orig.copayers)
           /\ \A i \in 1..Len(orig.copayers) :
                /\ \A k \in CopayerFIELDS \ { "addressType" } :
                     imp.copayers[i][k] = orig.copayers[i][k]
                /\ orig.copayers[i].addressType # ""
                     => imp.copayers[i].addressType = orig.copayers[i].addressType
                /\ orig.copayers[i].addressType = ""
                     => imp.copayers[i].addressType = NORMAL

\* an encrypted device with a copayer that has no wallet yet was exported and imported
C19_Witness ==
  /\ last.op = "import"
  /\ last.asReturned
  /\ ~last.opts.noSign
  /\ last.opts.password = ""
  /\ isPrivKeyEncrypted(last.pre)
  /\ isPrivKeyEncrypted(device)
  /\ \E i \in 1..Len(last.pre.copayers) : ~hasWalletInfo(last.pre.copayers[i])

\* C20: export(opts) never changes the device of the exporting client: after
\* export({password}) the client is still encrypted, after export({noSign: true})
\* it can still sign.
C20_ExportLeavesClient ==
  last.op = "export"
    => /\ device = last.pre
       /\ copayer = last.preCopayer
       /\ isPrivKeyEncrypted(last.pre) => isPrivKeyEncrypted(device)
       /\ canSign(last.pre) => canSign(device)

\* an encrypted client has exported a decrypted backup
C20_Witness ==
  /\ last.op = "export"
  /\ last.opts.password # ""
  /\ last.threw = ""
  /\ isPrivKeyEncrypted(device)
  /\ last.output.json.xPrivKey = RootXPrivKey
  /\ last.output.json.xPrivKeyEncrypted = ""

-----------------------------------------------------------------------------
(* Properties: key derivation (SpecKeyDerivation) *)

GuardedCalls == { "createWallet", "joinWallet", "createAddress" }

\* C18: while keyDerivationOk is false, createWallet, joinWallet and createAddress
\* fail with an error, send no request and leave the copayer and the device as
\* they were.
C18_NoWalletCallsWhileDerivationFails ==
  [][ (keyDerivationOk = "false" /\ pending.op = "none")
        => /\ pending'.op = "none"
           /\ copayer' = copayer
           /\ device' = device
           /\ last'.op \in GuardedCalls => last'.outcome = "error" ]_vars

\* createAddress has been refused on a complete wallet
C18_Witness ==
  /\ keyDerivationOk = "false"
  /\ last.op = "createAddress"
  /\ last.outcome = "error"
  /\ pending.op = "none"
  /\ copayer = last.pre
  /\ isComplete(copayer)

-----------------------------------------------------------------------------
(* Properties: the self tests (SpecSelfTest) *)

\* C37: once the hardcoded-key self test has failed in a validateKeyDerivation
\* call, every later validateKeyDerivation call of the process, on whichever
\* client, ends with keyDerivationOk false, unless the self test has been run
\* again and passed.
C37_FailedSelfTestStaysFailed ==
  (last.op = "validateKeyDerivation" /\ last.selfTestFailed) => keyDerivationOk = "false"

-----------------------------------------------------------------------------
(* Properties: importing backups (SpecImport) *)

\* C38: after a successful import(str) the active copayer is one of the imported
\* device's copayers, or there is no active copayer when the imported list is
\* empty; no copayer of the device loaded before stays active.
C38_ImportSetsCopayerOfImportedDevice ==
  (last.op = "import" /\ last.threw = "")
    => IF last.imported = <<>> THEN copayer = NoCopayer
       ELSE \E i \in 1..Len(last.imported) : copayer = last.imported[i]

-----------------------------------------------------------------------------
(* Properties: the copayer and its wallet (Spec) *)

\* C21: isComplete() holds exactly when m and n are set and publicKeyRing has n
\* entries; so after createWallet or joinWallet has recorded the wallet info, the
\* copayer of a wallet with n > 1 is not complete (openWallet has yet to install
\* the ring of n entries), while the copayer of a 1-of-1 wallet is complete at once.
C21_CompleteExactlyWithFullRing ==
  /\ isComplete(copayer)
       <=> (copayer.m # 0 /\ copayer.n # 0 /\ Len(copayer.publicKeyRing) = copayer.n)
  /\ (/\ last.op \in { "createWallet", "joinWallet" }
      /\ last.outcome = "ok"
      /\ hasWalletInfo(copayer))
       => /\ copayer.n > 1 => ~isComplete(copayer)
          /\ copayer.n = 1 => isComplete(copayer)

\* what joinWallet may touch of a copayer: the wallet information, the wallet's
\* private key, the shared encrypting key and the ring
walletStateOf(c) ==
  [ walletId |-> c.walletId, m |-> c.m, n |-> c.n, addressType |-> c.addressType,
    walletPrivKey |-> c.walletPrivKey, sharedEncryptingKey |-> c.sharedEncryptingKey,
    publicKeyRing |-> c.publicKeyRing ]

\* C25: after joinWallet with opts.dryRun, whatever the service answered, the
\* copayer's wallet information, wallet private key, shared encrypting key and
\* ring are what they were before the call.
C25_DryRunJoinLeavesCopayer ==
  (last.op = "joinWallet" /\ last.dryRun)
    => walletStateOf(copayer) = walletStateOf(last.pre)

-----------------------------------------------------------------------------
(* Properties: the accounts of a device (SpecAccounts) *)

\* C22: getNewAccount() returns 0 on a device without copayers and otherwise one
\* more than the largest account among its copayers (4 for the accounts 0, 2, 3);
\* what it returns is the account of none of them.
C22_NewAccountIsMaxPlusOne ==
  last.op = "getNewAccount"
    => /\ last.accounts = <<>> => last.result = 0
       /\ last.accounts # <<>>
            => /\ \E i \in 1..Len(last.accounts) : last.result = last.accounts[i] + 1
               /\ \A i \in 1..Len(last.accounts) : last.accounts[i] < last.result
       /\ \A i \in 1..Len(last.accounts) : last.accounts[i] # last.result
       /\ last.accounts = << 0, 2, 3 >> => last.result = 4

\* the next account of a device with the accounts 0, 2 and 3 has been asked for
C22_Witness ==
  /\ last.op = "getNewAccount"
  /\ last.accounts = << 0, 2, 3 >>
  /\ last.result = 4

\* C34: no two copayers of a device have the same account; addCopayer(account)
\* adds nothing exactly when a copayer with that account is there already, and
\* appends one copayer with that account otherwise.
C34_AccountsStayDistinct ==
  LET accounts == accountsOf(AllCopayers(device, copayer))
  IN  /\ \A i, j \in 1..Len(accounts) : accounts[i] = accounts[j] => i = j
      /\ last.op = "addCopayer"
           => /\ last.added <=> ~(\E i \in 1..Len(last.accounts) : last.accounts[i] = last.account)
              /\ last.added => accounts = Append(last.accounts, last.account)
              /\ ~last.added => accounts = last.accounts

\* C35: getCopayer(account) returns the copayer with that account when the
\* device has one, and null when it has none, whatever the accounts are.
C35_GetCopayerFindsByAccount ==
  last.op = "getCopayer"
    => IF \E i \in 1..Len(last.accounts) : last.accounts[i] = last.account
       THEN last.returned = "copayer" /\ last.copayer.account = last.account
       ELSE last.returned = "null"

-----------------------------------------------------------------------------
(* Properties: Utils.deriveAddress (SpecDerive) *)

\* C23: deriveAddress raises whenever addressType is neither NORMAL nor SHARED,
\* and whenever it is NORMAL and the ring does not have exactly one entry; a
\* result it returns always has an address.
C23_DeriveAddressRaisesOrHasAddress ==
  last.op = "deriveAddress"
    => /\ last.addressType \notin { NORMAL, SHARED } => last.result.threw
       /\ (last.addressType = NORMAL /\ Len(last.publicKeyRing) # 1) => last.result.threw
       /\ ~last.result.threw => last.result.address # ""

\* two rings hold the same keys, each as often
samePermutedKeys(ring1, ring2) ==
  /\ Len(ring1) = Len(ring2)
  /\ \A x \in RingXPubKeys : Count(ring1, [ xPubKey |-> x ]) = Count(ring2, [ xPubKey |-> x ])

\* C24: for a SHARED address the ring's order is kept: the leaf key of the i-th
\* entry is the i-th member of the definition's set and has the signing path
\* "r.<i>" (from zero), and a ring that is another permutation of the same keys
\* gives another definition and another address.
C24_SharedKeepsRingOrder ==
  (last.op = "deriveAddress" /\ last.addressType = SHARED /\ ~last.result.threw)
    => /\ Len(last.result.set) = Len(last.publicKeyRing)
       /\ \A i \in 1..Len(last.publicKeyRing) :
            /\ last.result.set[i] = leafPubKey(last.publicKeyRing[i].xPubKey, last.path)
            /\ last.result.signingPaths[last.result.set[i]] = SigningPathNames[i]
       /\ \A ring2 \in Rings :
            (ring2 # last.publicKeyRing /\ samePermutedKeys(ring2, last.publicKeyRing))
              => LET r2 == deriveAddressResult("w1", SHARED, ring2, last.path, last.m)
                 IN  r2.set # last.result.set /\ r2.address # last.result.address

-----------------------------------------------------------------------------
(* Properties: requests through the login session (SpecRequest) *)

\* a call through _doRequestWithLogin that has nothing left to do
requestOver == last.op = "getNotifications" /\ pending.op = "none"

\* C26: when the request through the login session is answered NOT_AUTHORIZED,
\* the client logs in again and sends the request once more, no more than
\* once; what the caller receives is the outcome of that second request (or
\* the error of the login), whatever it is, and nothing else.
C26_NotAuthorizedReplayedOnce ==
  (requestOver /\ last.first = "NOT_AUTHORIZED")
    => /\ last.requests <= 2
       /\ last.replay.err # "none"
            => /\ last.requests = 2
               /\ last.delivered = << last.replay >>
       /\ last.replay.err = "none"
            => last.delivered = << [ err |-> last.fault, body |-> NoBody ] >>

\* C27: a fault other than NOT_AUTHORIZED, of the login or of the request, is
\* what the caller receives, the first time it occurs; the caller is never told
\* of a success when no request succeeded.
C27_FaultsReachTheCaller ==
  requestOver
    => /\ last.first \notin { "none", "", "NOT_AUTHORIZED" }
            => last.delivered = << [ err |-> last.first, body |-> NoBody ] >>
       /\ (last.first = "none" /\ last.fault # "")
            => last.delivered = << [ err |-> last.fault, body |-> NoBody ] >>
       /\ \A i \in 1..Len(last.delivered) :
            last.delivered[i].err = "" => (last.first = "" \/ last.replay.err = "")

\* C28: after a poll that failed with NOT_FOUND or NOT_AUTHORIZED the timer is
\* cleared, notificationsIntervalId is null and no interval is left to poll;
\* after a poll that failed with another error the polling goes on.
C28_PollStopsOnNotFoundOrNotAuthorized ==
  (requestOver /\ last.from = "poll")
    => /\ last.fault \in { "NOT_FOUND", "NOT_AUTHORIZED" }
            => (notificationsIntervalId = 0 /\ timers = {})
       /\ last.fault \notin { "", "NOT_FOUND", "NOT_AUTHORIZED" }
            => timers # {}

\* C31: when a request through the login session is over, the caller's callback
\* has been called exactly once, whatever the service answered.
C31_CallbackCalledOnce ==
  requestOver => Len(last.delivered) = 1

\* C33: whatever initialize, setNotificationsInterval and dispose were called,
\* at most one interval polls, and none after dispose or after
\* setNotificationsInterval(0).
C33_AtMostOneTimer ==
  /\ Cardinality(timers) <= 1
  /\ last.op = "disposeNotifications" => timers = {}
  /\ (last.op = "setNotificationsInterval" /\ last.notificationIntervalSeconds = 0)
       => timers = {}

\* C32: every notification is emitted to the listeners at most once, also when
\* the interval fires while an earlier poll is in flight.
C32_NotificationEmittedOnce ==
  last.op = "poll" => \A n \in DOMAIN last.emitted : last.emitted[n] <= 1

-----------------------------------------------------------------------------
(* Properties: the expansion of a device (SpecExpand) *)

\* C29: _expand run again on an expanded device leaves every derived field
\* (xPubKey, requestPrivKey, requestPubKey, entropySource, personalEncryptingKey,
\* devicePubKey, deviceId) as the first expansion computed it.
C29_ExpandIsIdempotent ==
  (last.op = "expand" /\ ~last.threw)
    => \A k \in DerivedFIELDS : device[k] = last.pre[k]

\* C30: the device a constructor or fromObj made has the network its extended
\* key encodes: of xPrivKey, or of xPubKey when it has no private key.
C30_NetworkIsTheKeysNetwork ==
  (/\ last.op \in { "create", "createWithMnemonic", "fromExtendedPrivateKey", "fromMnemonic",
                    "fromExtendedPublicKey", "fromObj" }
   /\ ~last.threw)
    => device.network = getNetworkFromExtendedKey(IF device.xPrivKey # "" THEN device.xPrivKey
                                                  ELSE device.xPubKey)

====
